---- MODULE Spec2Model ----
(***************************************************************************)
(* Model of the schedule engine of eduplatform: models/schedule.py (the    *)
(* weekly session grid of one Schedule) and                                *)
(* repositories/schedule_repository.py (queries over every stored          *)
(* schedule); of the assignment lifecycle: models/assignment.py,           *)
(* repositories/assignment_repository.py and the grading of                *)
(* services/assignment_service.py; and of the grade book: models/grade.py  *)
(* and services/grade_service.py.                                          *)
(*                                                                         *)
(* Every id in the code is produced by an expression of the form           *)
(*     f"sess_{len(str(hash(str(datetime.now()))))[-6:]}"                  *)
(* which slices the int returned by len() and therefore raises TypeError   *)
(* (schedule.py lines 31, 68, 232).  The model keeps that behaviour:       *)
(* Schedule.__init__ and the accepting path of add_class_session raise,    *)
(* so a schedule's sessions are never produced by add_class_session; the   *)
(* contents of a schedule are input data of the bounded shape that         *)
(* add_class_session builds (lines 67-76), and the operations that need no *)
(* fresh id (conflict check, update, remove, the repository queries) act   *)
(* on them exactly as written.                                             *)
(***************************************************************************)
EXTENDS Integers, Sequences, FiniteSets, TLC

\* ------------------------------------------------------------ values

\* Python's None for string-valued and time-valued parameters.
None == "None"
NoTime == 0 - 1

\* The exception raised by subscripting an int.
TypeError == "TypeError"

\* Truth value of an Optional[str] in a Python condition.
Truthy(x) == x # None /\ x # ""

\* Weekday, in the order of the enum, which is the key order of _schedule.
Weekday == <<"monday", "tuesday", "wednesday", "thursday", "friday", "saturday", "sunday">>

DaySet == {Weekday[i] : i \in 1..Len(Weekday)}

\* datetime.time as seconds since midnight.
Time(h, m, s) == (h * 60 + m) * 60 + s

\* time.strftime('%H:%M'): the stored form keeps hours and minutes only
\* (here the number of whole minutes; zero padded, so it sorts like the time).
Strftime(t) == t \div 60

\* datetime.strptime(x, '%H:%M').time()
Strptime(hm) == hm * 60

\* ------------------------------------------------------------ bounds

\* Teachers that sessions and calls name.
NumTeachers == 2

TeacherIds == <<"T1", "T2", "T3", "T4">>

Teachers == {TeacherIds[i] : i \in 1..NumTeachers}

\* The weekdays that sessions and calls name.
Days == {"monday", "tuesday"}

\* The sessions of an initial schedule, in list order, and an id of none.
SessionIds == <<"sess_1", "sess_2">>

UnknownId == "sess_0"

\* Times given to update_class_session and held by initial sessions.
CallTimes == {Time(9, 0, 0), Time(9, 30, 0), Time(10, 0, 0)}

\* Times given to add_class_session.
AddTimes == CallTimes \cup {Time(10, 30, 0)}

\* The last day of the clock; assignments are due on day 1, so that calls
\* come before, on and after the due date.
MaxNow == 2

DueDates == {1}

\* The default of max_points (assignment.py line 29).
DefaultMaxPoints == 100

Students == {"S1", "S2"}

\* The grades grade_submission is given: below, inside and above the range.
GivenGrades == {0 - 5, 50, 150}

Contents == {"essay", "essay, second copy"}

\* ------------------------------------------------------------ state

VARIABLES
    storage,   \* BaseRepository._storage: the schedules, in insertion order
    call,      \* the call that has just returned: operation, arguments, result, state before
    thr,       \* concurrent callers of add_class_session: position and arguments of each
    assignments, \* the assignments of the AssignmentRepository, in insertion order
    now,       \* datetime.now(), in days
    grades,    \* the grades of the GradeRepository, in insertion order
    users,     \* UserRepository._storage: the users by key
    notifications \* the notifications of the NotificationRepository, in insertion order

vars == <<storage, call, thr, assignments, now, grades, users, notifications>>

\* An empty UserRepository._storage.
NoUsers == <<>>

\* A session dict as built by add_class_session (lines 67-76).  updated_at
\* is "now" when the running call set it and "earlier" otherwise (absent, or
\* set by an earlier call).
Session(id, teacher, start, end, room) ==
    [id |-> id, teacher_id |-> teacher, start_time |-> Strftime(start),
     end_time |-> Strftime(end), room |-> room, updated_at |-> "earlier"]

EmptyGrid == [d \in DaySet |-> <<>>]

\* The fields Schedule.__init__ sets after the id.  Timestamps are kept
\* relative to the running call: "old" (before it) or "now" (set by it).
NewSchedule(class_id, grid) ==
    [class_id |-> class_id, schedule |-> grid, exceptions |-> <<>>, last_updated |-> "earlier"]

\* Python's None for a score argument.
NoScore == 0 - 1

NoCall ==
    [op |-> "none", k |-> 0, sid |-> None, teacher |-> None, day |-> None,
     start |-> NoTime, end |-> NoTime, room |-> None, excl |-> {},
     exclude |-> None, date |-> None, student |-> None, content |-> None, grade |-> 0,
     id |-> None, score |-> NoScore, max_score |-> NoScore, comments |-> None,
     subject |-> None, days |-> 0, ret |-> None, out |-> <<>>, pre |-> <<>>]

\* ------------------------------------------------------------ Schedule

\* Mutant of Overlap: a window that starts inside the existing one is missed.
OverlapMissesLateStart(start, end, existing_start, existing_end) ==
    start < existing_start /\ end > existing_start

\* The test of line 111 / lines 175, 249.
Overlap(start, end, existing_start, existing_end) ==
    start < existing_end /\ end > existing_start

\* Mutant of HasConflict: the loop misses the first session of the day.
HasConflictSkipsFirst(grid, day, start_time, end_time, teacher_id, exclude_session_id) ==
    \E i \in 2..Len(grid[day]) :
        LET session == grid[day][i] IN
        /\ ~(Truthy(exclude_session_id) /\ session.id = exclude_session_id)
        /\ Truthy(teacher_id) /\ session.teacher_id = teacher_id
        /\ start_time < Strptime(session.end_time)
        /\ end_time > Strptime(session.start_time)

\* Schedule._has_conflict
HasConflict(grid, day, start_time, end_time, teacher_id, exclude_session_id) ==
    \E i \in 1..Len(grid[day]) :
        LET session == grid[day][i] IN
        /\ ~(Truthy(exclude_session_id) /\ session.id = exclude_session_id)
        /\ Truthy(teacher_id) /\ session.teacher_id = teacher_id
        /\ Overlap(start_time, end_time,
                   Strptime(session.start_time), Strptime(session.end_time))

\* f"sess_{len(str(hash(str(datetime.now()))))[-6:]}": len() returns an int
\* and an int cannot be sliced.
NewSessionId == TypeError

Returned(op, k, sid, teacher, day, start, end, room, ret) ==
    [NoCall EXCEPT !.op = op, !.k = k, !.sid = sid, !.teacher = teacher, !.day = day,
                   !.start = start, !.end = end, !.room = room, !.ret = ret,
                   !.pre = storage]

\* Mutant of AddSession: last_updated is stamped before the conflict check.
AddSessionStampsFirst(k, teacher_id, day, start_time, end_time, room) ==
    /\ call.op = "none"
    /\ UNCHANGED <<thr, assignments, now, grades, users, notifications>>
    /\ storage' = [storage EXCEPT ![k].last_updated = "now"]
    /\ call' = Returned("add", k, None, teacher_id, day, start_time, end_time, room,
                        IF HasConflict(storage[k].schedule, day, start_time, end_time, teacher_id, None)
                        THEN "False" ELSE TypeError)

\* Schedule.add_class_session
AddSession(k, teacher_id, day, start_time, end_time, room) ==
    /\ call.op = "none"
    /\ UNCHANGED <<thr, assignments, now, grades, users, notifications>>
    /\ LET grid == storage[k].schedule IN
       IF HasConflict(grid, day, start_time, end_time, teacher_id, None)
       THEN /\ storage' = storage
            /\ call' = Returned("add", k, None, teacher_id, day, start_time, end_time, room, "False")
       ELSE IF NewSessionId = TypeError
       THEN /\ storage' = storage
            /\ call' = Returned("add", k, None, teacher_id, day, start_time, end_time, room, TypeError)
       ELSE /\ storage' = [storage EXCEPT
                  ![k].schedule[day] = Append(@, Session(NewSessionId, teacher_id, start_time, end_time, room)),
                  ![k].last_updated = "now"]
            /\ call' = Returned("add", k, None, teacher_id, day, start_time, end_time, room, "True")

\* The caller takes the result; from then on every timestamp is in the past.
Age(s) == [s EXCEPT !.updated_at = "earlier"]

AgeGrid(grid) == [d \in DaySet |-> [i \in 1..Len(grid[d]) |-> Age(grid[d][i])]]

Resume ==
    /\ call.op # "none"
    /\ UNCHANGED <<thr, assignments, now, users, notifications>>
    /\ call' = NoCall
    /\ grades' = [k \in 1..Len(grades) |-> Age(grades[k])]
    /\ storage' = [k \in 1..Len(storage) |->
                     [storage[k] EXCEPT !.schedule = AgeGrid(@), !.last_updated = "earlier"]]

\* The first weekday, in key order, whose list holds a session with this id
\* (None when there is none): the loop of lines 138-145 and 186-188.
DayFound(grid, session_id) ==
    IF \E n \in 1..Len(Weekday) : \E i \in 1..Len(grid[Weekday[n]]) : grid[Weekday[n]][i].id = session_id
    THEN Weekday[CHOOSE n \in 1..Len(Weekday) :
            /\ \E i \in 1..Len(grid[Weekday[n]]) : grid[Weekday[n]][i].id = session_id
            /\ \A m \in 1..(n - 1) : \A i \in 1..Len(grid[Weekday[m]]) : grid[Weekday[m]][i].id # session_id]
    ELSE None

\* The first position in a day's list of a session with this id.
FirstIndex(sessions, session_id) ==
    CHOOSE i \in 1..Len(sessions) :
        /\ sessions[i].id = session_id
        /\ \A j \in 1..(i - 1) : sessions[j].id # session_id

\* Mutant of UpdatedGrid: a moved session is not taken off its old day.
UpdatedGridKeepsOld(grid, day_found, session_id, new_day, new_start_time, new_end_time, new_room) ==
    LET i == FirstIndex(grid[day_found], session_id)
        session == grid[day_found][i]
        updated == [session EXCEPT
            !.start_time = IF new_start_time # NoTime THEN Strftime(new_start_time) ELSE @,
            !.end_time = IF new_end_time # NoTime THEN Strftime(new_end_time) ELSE @,
            !.room = IF new_room # None THEN new_room ELSE @,
            !.updated_at = "now"]
    IN  IF new_day # None /\ day_found # new_day
        THEN [grid EXCEPT ![day_found][i] = updated, ![new_day] = Append(@, updated)]
        ELSE [grid EXCEPT ![day_found][i] = updated]

\* The grid after lines 160-173 of update_class_session.
UpdatedGrid(grid, day_found, session_id, new_day, new_start_time, new_end_time, new_room) ==
    LET i == FirstIndex(grid[day_found], session_id)
        session == grid[day_found][i]
        updated == [session EXCEPT
            !.start_time = IF new_start_time # NoTime THEN Strftime(new_start_time) ELSE @,
            !.end_time = IF new_end_time # NoTime THEN Strftime(new_end_time) ELSE @,
            !.room = IF new_room # None THEN new_room ELSE @,
            !.updated_at = "now"]
    IN  IF new_day # None /\ day_found # new_day
        THEN [grid EXCEPT
                ![day_found] = SelectSeq(@, LAMBDA s : s.id # session_id),
                ![new_day] = Append(@, updated)]
        ELSE [grid EXCEPT ![day_found][i] = updated]

\* Schedule.update_class_session
UpdateSession(k, session_id, new_day, new_start_time, new_end_time, new_room) ==
    /\ call.op = "none"
    /\ UNCHANGED <<thr, assignments, now, grades, users, notifications>>
    /\ LET grid == storage[k].schedule
           day_found == DayFound(grid, session_id)
           done(ret) == Returned("update", k, session_id, None, new_day, new_start_time,
                                 new_end_time, new_room, ret)
       IN  IF day_found = None
           THEN /\ storage' = storage
                /\ call' = done("False")
           ELSE LET session == grid[day_found][FirstIndex(grid[day_found], session_id)]
                    day == IF new_day # None THEN new_day ELSE day_found
                    start_time == IF new_start_time # NoTime THEN new_start_time
                                  ELSE Strptime(session.start_time)
                    end_time == IF new_end_time # NoTime THEN new_end_time
                                ELSE Strptime(session.end_time)
                IN  IF HasConflict(grid, day, start_time, end_time, session.teacher_id, session_id)
                    THEN /\ storage' = storage
                         /\ call' = done("False")
                    ELSE /\ storage' = [storage EXCEPT
                               ![k].schedule = UpdatedGrid(grid, day_found, session_id, new_day,
                                                           new_start_time, new_end_time, new_room),
                               ![k].last_updated = "now"]
                         /\ call' = done("True")

\* Mutant of Pop: the last session of the list is taken, not the one found.
PopLast(sessions, i) == SubSeq(sessions, 1, Len(sessions) - 1)

\* list.pop(i)
Pop(sessions, i) == [j \in 1..(Len(sessions) - 1) |-> IF j < i THEN sessions[j] ELSE sessions[j + 1]]

\* Schedule.remove_class_session
RemoveSession(k, session_id) ==
    /\ call.op = "none"
    /\ UNCHANGED <<thr, assignments, now, grades, users, notifications>>
    /\ LET grid == storage[k].schedule
           day_found == DayFound(grid, session_id)
           done(ret) == Returned("remove", k, session_id, None, None, NoTime, NoTime, None, ret)
       IN  IF day_found = None
           THEN /\ storage' = storage
                /\ call' = done("False")
           ELSE /\ storage' = [storage EXCEPT
                      ![k].schedule[day_found] = Pop(@, FirstIndex(@, session_id)),
                      ![k].last_updated = "now"]
                /\ call' = done("True")

\* f"exc_{len(str(hash(str(datetime.now()))))[-6:]}" (line 232): as for the
\* session id, an int cannot be sliced.
NewExceptionId == TypeError

\* Schedule.add_exception
AddException(k, date, reason, is_holiday, make_up_date) ==
    /\ call.op = "none"
    /\ UNCHANGED <<thr, assignments, now, grades, users, notifications>>
    /\ LET done(ret) == [Returned("add_exception", k, None, None, None, NoTime, NoTime, None, ret)
                            EXCEPT !.date = date]
       IN  IF NewExceptionId = TypeError
           THEN /\ storage' = storage
                /\ call' = done(TypeError)
           ELSE /\ storage' = [storage EXCEPT
                      ![k].exceptions = Append(@, [id |-> NewExceptionId, date |-> date,
                                                   reason |-> reason, is_holiday |-> is_holiday,
                                                   make_up_date |-> make_up_date]),
                      ![k].last_updated = "now"]
                /\ call' = done(NewExceptionId)

\* ------------------------------------------------------------ one schedule

\* The sessions of a grid, as <<day, position>> pairs.
Slots(grid) == {<<d, i>> \in DaySet \X (1..Len(SessionIds)) : i <= Len(grid[d])}

\* A grid as add_class_session leaves it: no two sessions of a teacher on a
\* day pass the test of line 111, and ids name one session each.
AsAdded(grid) ==
    \A p \in Slots(grid), q \in Slots(grid) :
        LET a == grid[p[1]][p[2]]
            b == grid[q[1]][q[2]]
        IN  p # q =>
            /\ a.id # b.id
            /\ ~(p[1] = q[1] /\ a.teacher_id = b.teacher_id
                 /\ Overlap(Strptime(a.start_time), Strptime(a.end_time),
                            Strptime(b.start_time), Strptime(b.end_time)))

SeedRoom == "Room 101"

SeedWindows == {w \in CallTimes \X CallTimes : w[1] < w[2]}

Placements == [day : Days, teacher : Teachers, window : SeedWindows]

\* Teachers are interchangeable: the first session is the first teacher's.
Seeds == {p \in UNION {[1..n -> Placements] : n \in 0..Len(SessionIds)} :
             Len(p) > 0 => p[1].teacher = TeacherIds[1]}

\* The grid holding session i of p on day p[i].day, in the order of i.
GridOf(p) ==
    [d \in DaySet |->
        LET idx == SelectSeq([i \in 1..Len(p) |-> i], LAMBDA i : p[i].day = d)
        IN  [j \in 1..Len(idx) |->
                Session(SessionIds[idx[j]], p[idx[j]].teacher,
                        p[idx[j]].window[1], p[idx[j]].window[2], SeedRoom)]]

SeedGrids ==
    {g \in {GridOf(p) : p \in Seeds} : AsAdded(g)}

Threads == {"caller_1", "caller_2"}

Idle == [pc |-> "idle", teacher |-> None, day |-> None, start |-> NoTime, end |-> NoTime,
         ret |-> None]

Init ==
    /\ storage \in {<<NewSchedule("C1", g)>> : g \in SeedGrids}
    /\ call = NoCall
    /\ thr = [t \in Threads |-> Idle]
    /\ assignments = <<>>
    /\ now = 0
    /\ grades = <<>>
    /\ users = NoUsers
    /\ notifications = <<>>

NewRooms == {None, "Room 102"}

\* The dates add_exception is given.
ExceptionDates == {"2024-12-25", "2025-01-01"}

KnownIds == {SessionIds[i] : i \in 1..Len(SessionIds)}

Next ==
    \/ \E t \in Teachers, d \in Days, s \in AddTimes, e \in AddTimes :
           AddSession(1, t, d, s, e, SeedRoom)
    \/ \E id \in KnownIds,
          d \in Days \cup {None}, s \in CallTimes \cup {NoTime}, e \in CallTimes \cup {NoTime},
          r \in NewRooms :
           UpdateSession(1, id, d, s, e, r)
    \/ \E d \in Days \cup {None}, r \in NewRooms :
           UpdateSession(1, UnknownId, d, NoTime, NoTime, r)
    \/ \E id \in KnownIds \cup {UnknownId} :
           RemoveSession(1, id)
    \/ \E d \in ExceptionDates, h \in BOOLEAN, m \in ExceptionDates \cup {None} :
           AddException(1, d, "closed", h, m)
    \/ Resume

Spec == Init /\ [][Next]_vars

\* ------------------------------------------------------------ ScheduleRepository

\* Lines 100-107: the teacher's sessions of the day, schedule by schedule in
\* get_all() order, as parsed {start, end} pairs.
RECURSIVE ScheduledSlots(_, _, _)
ScheduledSlots(k, teacher_id, day) ==
    IF k > Len(storage) THEN <<>>
    ELSE LET mine == SelectSeq(storage[k].schedule[day], LAMBDA x : x.teacher_id = teacher_id)
         IN  [i \in 1..Len(mine) |->
                 [start |-> Strptime(mine[i].start_time), end |-> Strptime(mine[i].end_time)]]
             \o ScheduledSlots(k + 1, teacher_id, day)

\* list.sort(key=lambda x: x['start']) (line 110): stable, by start time.
RECURSIVE SortByStart(_)
SortByStart(slots) ==
    IF Len(slots) <= 1 THEN slots
    ELSE LET rest == SortByStart(Tail(slots))
             before == SelectSeq(rest, LAMBDA x : x.start < Head(slots).start)
             after == SelectSeq(rest, LAMBDA x : ~(x.start < Head(slots).start))
         IN  before \o <<Head(slots)>> \o after

\* Lines 113-114.
work_start == Time(8, 0, 0)

work_end == Time(17, 0, 0)

\* The loop of lines 120-126 from slot i on, and the trailing gap of lines 129-133.
RECURSIVE Gaps(_, _, _, _)
Gaps(slots, i, current_time, available_slots) ==
    IF i > Len(slots)
    THEN IF current_time < work_end
         THEN Append(available_slots,
                     [start |-> Strftime(current_time), end |-> Strftime(work_end)])
         ELSE available_slots
    ELSE Gaps(slots, i + 1, slots[i].end,
              IF current_time < slots[i].start
              THEN Append(available_slots,
                          [start |-> Strftime(current_time), end |-> Strftime(slots[i].start)])
              ELSE available_slots)

Answered(op, teacher, day, start, end, excl, ret, out) ==
    [NoCall EXCEPT !.op = op, !.teacher = teacher, !.day = day, !.start = start,
                   !.end = end, !.excl = excl, !.ret = ret, !.out = out, !.pre = storage]

\* ScheduleRepository.get_teacher_availability
TeacherAvailability(teacher_id, day) ==
    /\ call.op = "none"
    /\ call' = Answered("availability", teacher_id, day, NoTime, NoTime, {}, None,
                        Gaps(SortByStart(ScheduledSlots(1, teacher_id, day)), 1, work_start, <<>>))
    /\ UNCHANGED <<storage, thr, assignments, now, grades, users, notifications>>

\* Line 161.
all_rooms == {"Room 101", "Room 102", "Room 103", "Room 201", "Room 202", "Lab 1"}

\* Mutant of RoomAvailable: only the first stored schedule is scanned.
RoomAvailableFirstScheduleOnly(room, day, start_time, end_time) ==
    \A k \in 1..1 : \A i \in 1..Len(storage[k].schedule[day]) :
        LET session == storage[k].schedule[day][i] IN
        ~(session.room = room
          /\ ~(end_time <= Strptime(session.start_time)
               \/ start_time >= Strptime(session.end_time)))

\* Lines 166-180: no session of the day, in any schedule, is in the room
\* with a window that passes the test of line 175.
RoomAvailable(room, day, start_time, end_time) ==
    \A k \in 1..Len(storage) : \A i \in 1..Len(storage[k].schedule[day]) :
        LET session == storage[k].schedule[day][i] IN
        ~(session.room = room
          /\ ~(end_time <= Strptime(session.start_time)
               \/ start_time >= Strptime(session.end_time)))

\* ScheduleRepository.find_available_room.  The candidates are walked in the
\* iteration order of a set of strings, which differs from run to run: any
\* available candidate can be the first one found.
FindAvailableRoom(day, start_time, end_time, exclude_rooms) ==
    /\ call.op = "none"
    /\ LET available_rooms == all_rooms \ exclude_rooms
           free == {room \in available_rooms : RoomAvailable(room, day, start_time, end_time)}
       IN  \E ret \in (IF free = {} THEN {None} ELSE free) :
               call' = Answered("room", None, day, start_time, end_time, exclude_rooms, ret, <<>>)
    /\ UNCHANGED <<storage, thr, assignments, now, grades, users, notifications>>

\* Mutant of ConflictsIn: the scan of a schedule stops at its first match.
ConflictsInFirstOnly(k, teacher_id, day, start_time, end_time) ==
    LET hits == SelectSeq(storage[k].schedule[day], LAMBDA session :
                    /\ session.teacher_id = teacher_id
                    /\ ~(end_time <= Strptime(session.start_time)
                         \/ start_time >= Strptime(session.end_time)))
    IN  [i \in 1..(IF Len(hits) > 0 THEN 1 ELSE 0) |->
            [class_id |-> storage[k].class_id, teacher_id |-> teacher_id,
             existing_start |-> Strftime(Strptime(hits[i].start_time)),
             existing_end |-> Strftime(Strptime(hits[i].end_time)),
             conflict_start |-> Strftime(start_time), conflict_end |-> Strftime(end_time)]]

\* Lines 243-258: the entries appended for schedule k, one for each session
\* of the day with the teacher_id that passes the test of line 249.
ConflictsIn(k, teacher_id, day, start_time, end_time) ==
    LET hits == SelectSeq(storage[k].schedule[day], LAMBDA session :
                    /\ session.teacher_id = teacher_id
                    /\ ~(end_time <= Strptime(session.start_time)
                         \/ start_time >= Strptime(session.end_time)))
    IN  [i \in 1..Len(hits) |->
            [class_id |-> storage[k].class_id, teacher_id |-> teacher_id,
             existing_start |-> Strftime(Strptime(hits[i].start_time)),
             existing_end |-> Strftime(Strptime(hits[i].end_time)),
             conflict_start |-> Strftime(start_time), conflict_end |-> Strftime(end_time)]]

\* The loop of lines 238-258 from schedule k on, in get_all() order.
RECURSIVE Conflicts(_, _, _, _, _, _)
Conflicts(k, teacher_id, day, start_time, end_time, exclude_class_id) ==
    IF k > Len(storage) THEN <<>>
    ELSE (IF Truthy(exclude_class_id) /\ storage[k].class_id = exclude_class_id
          THEN <<>>
          ELSE ConflictsIn(k, teacher_id, day, start_time, end_time))
         \o Conflicts(k + 1, teacher_id, day, start_time, end_time, exclude_class_id)

\* ScheduleRepository.get_conflicts
GetConflicts(teacher_id, day, start_time, end_time, exclude_class_id) ==
    /\ call.op = "none"
    /\ call' = [Answered("conflicts", teacher_id, day, start_time, end_time, {}, None,
                          Conflicts(1, teacher_id, day, start_time, end_time, exclude_class_id))
                   EXCEPT !.exclude = exclude_class_id]
    /\ UNCHANGED <<storage, thr, assignments, now, grades, users, notifications>>

\* The windows of the sessions a repository holds at the start: before,
\* across and after the work hours, and nested, overlapping and apart.
RepoWindows ==
    {<<Time(6, 0, 0), Time(7, 0, 0)>>, <<Time(7, 0, 0), Time(9, 0, 0)>>,
     <<Time(9, 0, 0), Time(12, 0, 0)>>, <<Time(10, 0, 0), Time(11, 0, 0)>>,
     <<Time(11, 0, 0), Time(13, 0, 0)>>, <<Time(16, 0, 0), Time(18, 0, 0)>>,
     <<Time(18, 0, 0), Time(19, 0, 0)>>}

RepoRooms == {"Room 101", "Room 102"}

RepoPlacements ==
    [class : {1, 2}, day : Days, teacher : Teachers, window : RepoWindows, room : RepoRooms]

RepoSeeds ==
    {p \in UNION {[1..n -> RepoPlacements] : n \in 0..Len(SessionIds)} :
        Len(p) > 0 => p[1].teacher = TeacherIds[1]}

\* The grid of schedule c: session i of p on day p[i].day, in the order of i.
RepoGridOf(p, c) ==
    [d \in DaySet |->
        LET idx == SelectSeq([i \in 1..Len(p) |-> i], LAMBDA i : p[i].day = d /\ p[i].class = c)
        IN  [j \in 1..Len(idx) |->
                Session(SessionIds[idx[j]], p[idx[j]].teacher,
                        p[idx[j]].window[1], p[idx[j]].window[2], p[idx[j]].room)]]

RepoStorages ==
    {st \in {<<NewSchedule("C1", RepoGridOf(p, 1)), NewSchedule("C2", RepoGridOf(p, 2))>> :
                p \in RepoSeeds} :
        \A k \in 1..2 : AsAdded(st[k].schedule)}

InitRepo ==
    /\ storage \in RepoStorages
    /\ call = NoCall
    /\ thr = [t \in Threads |-> Idle]
    /\ assignments = <<>>
    /\ now = 0
    /\ grades = <<>>
    /\ users = NoUsers
    /\ notifications = <<>>

\* The windows and exclusions find_available_room is asked for.
RoomWindows ==
    {<<Time(9, 0, 0), Time(10, 0, 0)>>, <<Time(12, 0, 0), Time(16, 0, 0)>>,
     <<Time(6, 0, 0), Time(19, 0, 0)>>}

Exclusions ==
    {{}, all_rooms \ {"Room 101", "Room 102"}, all_rooms \ {"Room 101"}, all_rooms}

\* The windows and excluded classes get_conflicts is asked for.
ConflictWindows ==
    {<<Time(9, 0, 0), Time(12, 0, 0)>>, <<Time(10, 0, 0), Time(11, 0, 0)>>,
     <<Time(6, 0, 0), Time(19, 0, 0)>>}

ExcludedClasses == {None, "C1", "C2"}

NextRepo ==
    \/ \E t \in Teachers, d \in Days : TeacherAvailability(t, d)
    \/ \E t \in Teachers, d \in Days, w \in ConflictWindows, x \in ExcludedClasses :
           GetConflicts(t, d, w[1], w[2], x)
    \/ \E d \in Days, w \in RoomWindows, x \in Exclusions :
           FindAvailableRoom(d, w[1], w[2], x)
    \/ Resume

SpecRepo == InitRepo /\ [][NextRepo]_vars

\* ------------------------------------------------------------ concurrent callers
\* Neither Schedule nor BaseRepository takes a lock: callers of
\* add_class_session on one schedule interleave between its statements.

\* A caller enters add_class_session (line 42).
AddEnter(t, teacher_id, day, start_time, end_time) ==
    /\ thr[t].pc = "idle"
    /\ thr' = [thr EXCEPT ![t] = [pc |-> "line64", teacher |-> teacher_id, day |-> day,
                                   start |-> start_time, end |-> end_time, ret |-> None]]
    /\ UNCHANGED <<storage, call, assignments, now, grades, users, notifications>>

\* Lines 64-65: the conflict check, on the sessions stored at that moment.
AddCheck(t) ==
    /\ thr[t].pc = "line64"
    /\ thr' = [thr EXCEPT ![t] =
                 IF HasConflict(storage[1].schedule, thr[t].day, thr[t].start, thr[t].end,
                                thr[t].teacher, None)
                 THEN [@ EXCEPT !.pc = "returned", !.ret = "False"]
                 ELSE [@ EXCEPT !.pc = "line67"]]
    /\ UNCHANGED <<storage, call, assignments, now, grades, users, notifications>>

\* Lines 67-80: the session dict is built (its id first), appended, and the
\* schedule stamped.
AddBuild(t) ==
    /\ thr[t].pc = "line67"
    /\ IF NewSessionId = TypeError
       THEN /\ thr' = [thr EXCEPT ![t].pc = "returned", ![t].ret = TypeError]
            /\ storage' = storage
       ELSE /\ thr' = [thr EXCEPT ![t].pc = "returned", ![t].ret = "True"]
            /\ storage' = [storage EXCEPT
                  ![1].schedule[thr[t].day] =
                      Append(@, Session(NewSessionId, thr[t].teacher, thr[t].start, thr[t].end, SeedRoom)),
                  ![1].last_updated = "now"]
    /\ UNCHANGED <<call, assignments, now, grades, users, notifications>>

\* The windows the concurrent callers ask for.
ConcWindows ==
    {<<Time(9, 0, 0), Time(10, 0, 0)>>, <<Time(9, 30, 0), Time(10, 30, 0)>>,
     <<Time(10, 0, 0), Time(10, 30, 0)>>}

NextConc ==
    \/ \E t \in Threads, x \in Teachers, d \in Days, w \in ConcWindows :
           AddEnter(t, x, d, w[1], w[2])
    \/ \E t \in Threads : AddCheck(t)
    \/ \E t \in Threads : AddBuild(t)

InitConc ==
    /\ storage \in {<<NewSchedule("C1", GridOf(p))>> : p \in {q \in Seeds : Len(q) <= 1}}
    /\ call = NoCall
    /\ thr = [t \in Threads |-> Idle]
    /\ assignments = <<>>
    /\ now = 0
    /\ grades = <<>>
    /\ users = NoUsers
    /\ notifications = <<>>

SpecConc == InitConc /\ [][NextConc]_vars

\* ------------------------------------------------------------ Assignment
\* models/assignment.py.  Assignment.__init__ raises as well (the id of
\* line 43, and max(float(max_points)) at line 51), so an assignment is given
\* with the fields __init__ assigns; every other method needs no id and is
\* modelled as written.  Dates are whole days, points whole numbers.

AssignmentStatus ==
    [DRAFT |-> "draft", PUBLISHED |-> "published", IN_PROGRESS |-> "in_progress",
     SUBMITTED |-> "submitted", GRADED |-> "graded", OVERDUE |-> "overdue",
     CANCELLED |-> "cancelled"]

\* Python's None for a grade.
NoGrade == 0 - 1

\* An empty dict.
EmptyDict == <<>>

\* The fields Assignment.__init__ sets (lines 44-56).
NewAssignment(teacher_id, due_date, max_points) ==
    [teacher_id |-> teacher_id, due_date |-> due_date, max_points |-> max_points,
     status |-> AssignmentStatus.DRAFT, submissions |-> EmptyDict, grades |-> EmptyDict]

\* dict[key] = value
Put(dict, key, value) ==
    [x \in DOMAIN dict \cup {key} |-> IF x = key THEN value ELSE dict[x]]

\* any(sub.get('status') != 'graded' for sub in self._submissions.values())
AnyUngraded(a) ==
    \E s \in DOMAIN a.submissions : a.submissions[s].status # "graded"

\* all(sub.get('status') == 'graded' for sub in self._submissions.values())
AllGraded(a) ==
    \A s \in DOMAIN a.submissions : a.submissions[s].status = "graded"

\* Mutant of UpdateStatus: the test for SUBMITTED comes before the test for
\* OVERDUE.
UpdateStatusSubmittedFirst(a, t) ==
    IF DOMAIN a.submissions # {} /\ AnyUngraded(a) THEN AssignmentStatus.SUBMITTED
    ELSE IF t > a.due_date /\ AnyUngraded(a) THEN AssignmentStatus.OVERDUE
    ELSE IF DOMAIN a.submissions # {} /\ AllGraded(a) THEN AssignmentStatus.GRADED
    ELSE IF a.status = AssignmentStatus.PUBLISHED THEN AssignmentStatus.IN_PROGRESS
    ELSE a.status

\* Mutant of UpdateStatus: past the due date any submission makes OVERDUE.
UpdateStatusOverdueWhenLate(a, t) ==
    IF t > a.due_date /\ DOMAIN a.submissions # {} THEN AssignmentStatus.OVERDUE
    ELSE IF DOMAIN a.submissions # {} /\ AnyUngraded(a) THEN AssignmentStatus.SUBMITTED
    ELSE IF DOMAIN a.submissions # {} /\ AllGraded(a) THEN AssignmentStatus.GRADED
    ELSE IF a.status = AssignmentStatus.PUBLISHED THEN AssignmentStatus.IN_PROGRESS
    ELSE a.status

\* Mutant of UpdateStatus: the due date itself counts as past.
UpdateStatusOverdueAtDue(a, t) ==
    IF t >= a.due_date /\ AnyUngraded(a) THEN AssignmentStatus.OVERDUE
    ELSE IF DOMAIN a.submissions # {} /\ AnyUngraded(a) THEN AssignmentStatus.SUBMITTED
    ELSE IF DOMAIN a.submissions # {} /\ AllGraded(a) THEN AssignmentStatus.GRADED
    ELSE IF a.status = AssignmentStatus.PUBLISHED THEN AssignmentStatus.IN_PROGRESS
    ELSE a.status

\* Mutant of UpdateStatus: PUBLISHED is not turned into IN_PROGRESS.
UpdateStatusKeepsPublished(a, t) ==
    IF t > a.due_date /\ AnyUngraded(a) THEN AssignmentStatus.OVERDUE
    ELSE IF DOMAIN a.submissions # {} /\ AnyUngraded(a) THEN AssignmentStatus.SUBMITTED
    ELSE IF DOMAIN a.submissions # {} /\ AllGraded(a) THEN AssignmentStatus.GRADED
    ELSE a.status

\* Mutant of UpdateStatus: DRAFT is turned into IN_PROGRESS as PUBLISHED is.
UpdateStatusStartsDraft(a, t) ==
    IF t > a.due_date /\ AnyUngraded(a) THEN AssignmentStatus.OVERDUE
    ELSE IF DOMAIN a.submissions # {} /\ AnyUngraded(a) THEN AssignmentStatus.SUBMITTED
    ELSE IF DOMAIN a.submissions # {} /\ AllGraded(a) THEN AssignmentStatus.GRADED
    ELSE IF a.status \in {AssignmentStatus.PUBLISHED, AssignmentStatus.DRAFT}
    THEN AssignmentStatus.IN_PROGRESS
    ELSE a.status

\* Mutant of UpdateStatus: a stored OVERDUE is not derived again.
UpdateStatusOverdueOnce(a, t) ==
    IF t > a.due_date /\ AnyUngraded(a) /\ a.status # AssignmentStatus.OVERDUE
    THEN AssignmentStatus.OVERDUE
    ELSE IF DOMAIN a.submissions # {} /\ AnyUngraded(a) THEN AssignmentStatus.SUBMITTED
    ELSE IF DOMAIN a.submissions # {} /\ AllGraded(a) THEN AssignmentStatus.GRADED
    ELSE IF a.status = AssignmentStatus.PUBLISHED THEN AssignmentStatus.IN_PROGRESS
    ELSE a.status

\* Assignment._update_status at time t: the value _status has afterwards.
UpdateStatus(a, t) ==
    IF t > a.due_date /\ AnyUngraded(a) THEN AssignmentStatus.OVERDUE
    ELSE IF DOMAIN a.submissions # {} /\ AnyUngraded(a) THEN AssignmentStatus.SUBMITTED
    ELSE IF DOMAIN a.submissions # {} /\ AllGraded(a) THEN AssignmentStatus.GRADED
    ELSE IF a.status = AssignmentStatus.PUBLISHED THEN AssignmentStatus.IN_PROGRESS
    ELSE a.status

Replied(op, k, student, content, grade, ret) ==
    [NoCall EXCEPT !.op = op, !.k = k, !.student = student, !.content = content,
                   !.grade = grade, !.ret = ret, !.pre = assignments]

\* Assignment.status (the property): _update_status, then the stored value.
Status(k) ==
    /\ call.op = "none"
    /\ assignments' = [assignments EXCEPT ![k].status = UpdateStatus(assignments[k], now)]
    /\ call' = Replied("status", k, None, None, NoGrade, UpdateStatus(assignments[k], now))
    /\ UNCHANGED <<storage, thr, now, grades, users, notifications>>

\* Mutant of Publish: the stored status is not looked at.
PublishAlways(k) ==
    /\ call.op = "none"
    /\ assignments' = [assignments EXCEPT ![k].status = AssignmentStatus.PUBLISHED]
    /\ call' = Replied("publish", k, None, None, NoGrade, "True")
    /\ UNCHANGED <<storage, thr, now, grades, users, notifications>>

\* Assignment.publish
Publish(k) ==
    /\ call.op = "none"
    /\ IF assignments[k].status = AssignmentStatus.DRAFT
       THEN /\ assignments' = [assignments EXCEPT ![k].status = AssignmentStatus.PUBLISHED]
            /\ call' = Replied("publish", k, None, None, NoGrade, "True")
       ELSE /\ assignments' = assignments
            /\ call' = Replied("publish", k, None, None, NoGrade, "False")
    /\ UNCHANGED <<storage, thr, now, grades, users, notifications>>

\* Mutant of AddSubmission: a student who has submitted may submit again.
AddSubmissionOverwrites(k, student_id, content) ==
    /\ call.op = "none"
    /\ LET a == assignments[k]
           submitted == [a EXCEPT !.submissions = Put(@, student_id,
                            [content |-> content, submitted_at |-> now, status |-> "submitted",
                             grade |-> NoGrade, feedback |-> None])]
       IN  IF a.status = AssignmentStatus.DRAFT
           THEN /\ assignments' = assignments
                /\ call' = Replied("add_submission", k, student_id, content, NoGrade, "False")
           ELSE /\ assignments' = [assignments EXCEPT
                      ![k] = [submitted EXCEPT !.status = UpdateStatus(submitted, now)]]
                /\ call' = Replied("add_submission", k, student_id, content, NoGrade, "True")
    /\ UNCHANGED <<storage, thr, now, grades, users, notifications>>

\* Mutant of AddSubmission: _update_status (line 124) is not called.
AddSubmissionKeepsStatus(k, student_id, content) ==
    /\ call.op = "none"
    /\ LET a == assignments[k]
           submitted == [a EXCEPT !.submissions = Put(@, student_id,
                            [content |-> content, submitted_at |-> now, status |-> "submitted",
                             grade |-> NoGrade, feedback |-> None])]
       IN  IF a.status = AssignmentStatus.DRAFT \/ student_id \in DOMAIN a.submissions
           THEN /\ assignments' = assignments
                /\ call' = Replied("add_submission", k, student_id, content, NoGrade, "False")
           ELSE /\ assignments' = [assignments EXCEPT ![k] = submitted]
                /\ call' = Replied("add_submission", k, student_id, content, NoGrade, "True")
    /\ UNCHANGED <<storage, thr, now, grades, users, notifications>>

\* Assignment.add_submission
AddSubmission(k, student_id, content) ==
    /\ call.op = "none"
    /\ LET a == assignments[k]
           submitted == [a EXCEPT !.submissions = Put(@, student_id,
                            [content |-> content, submitted_at |-> now, status |-> "submitted",
                             grade |-> NoGrade, feedback |-> None])]
       IN  IF a.status = AssignmentStatus.DRAFT \/ student_id \in DOMAIN a.submissions
           THEN /\ assignments' = assignments
                /\ call' = Replied("add_submission", k, student_id, content, NoGrade, "False")
           ELSE /\ assignments' = [assignments EXCEPT
                      ![k] = [submitted EXCEPT !.status = UpdateStatus(submitted, now)]]
                /\ call' = Replied("add_submission", k, student_id, content, NoGrade, "True")
    /\ UNCHANGED <<storage, thr, now, grades, users, notifications>>

\* Mutant of Clamp: max(0, float(grade)), without the upper limit.
ClampLowerOnly(grade, max_points) ==
    IF 0 > grade THEN 0 ELSE grade

\* max(0, min(float(grade), self._max_points))
Clamp(grade, max_points) ==
    LET least == IF grade < max_points THEN grade ELSE max_points
    IN  IF 0 > least THEN 0 ELSE least

\* Assignment.grade_submission
GradeSubmission(k, student_id, grade, feedback) ==
    /\ call.op = "none"
    /\ LET a == assignments[k]
           clamped == Clamp(grade, a.max_points)
           graded == [a EXCEPT
               !.grades = Put(@, student_id,
                              [grade |-> clamped, feedback |-> feedback, graded_at |-> now,
                               graded_by |-> a.teacher_id]),
               !.submissions[student_id] =
                   [@ EXCEPT !.status = "graded", !.grade = clamped, !.feedback = feedback]]
       IN  IF student_id \notin DOMAIN a.submissions
           THEN /\ assignments' = assignments
                /\ call' = Replied("grade_submission", k, student_id, None, grade, "False")
           ELSE /\ assignments' = [assignments EXCEPT
                      ![k] = [graded EXCEPT !.status = UpdateStatus(graded, now)]]
                /\ call' = Replied("grade_submission", k, student_id, None, grade, "True")
    /\ UNCHANGED <<storage, thr, now, grades, users, notifications>>

KeyError == "KeyError"

ValueError == "ValueError"

\* Mutant of GradeAssignment: the submission dicts have an 'id', the student's
\* id, so that the lookup succeeds and lines 213-236 run.
GradeAssignmentFindsSubmission(teacher_id, submission_id, grade, feedback) ==
    /\ call.op = "none"
    /\ LET found == {k \in 1..Len(assignments) :
                        submission_id \in DOMAIN assignments[k].submissions}
           k == CHOOSE x \in found : \A y \in found : x <= y
       IN  IF found = {}
           THEN /\ assignments' = assignments
                /\ call' = Replied("grade_assignment", 1, submission_id, None, grade, ValueError)
           ELSE IF grade < 0 \/ grade > assignments[k].max_points
           THEN /\ assignments' = assignments
                /\ call' = Replied("grade_assignment", k, submission_id, None, grade, ValueError)
           ELSE /\ assignments' = [assignments EXCEPT ![k].submissions[submission_id] =
                      [@ EXCEPT !.status = "graded", !.grade = grade, !.feedback = feedback]]
                /\ call' = Replied("grade_assignment", k, submission_id, None, grade, TypeError)
    /\ UNCHANGED <<storage, thr, now, grades, users, notifications>>

\* AssignmentService.grade_assignment.  The loop of lines 205-208 reads s['id']
\* of every submission of every assignment in turn; add_submission (lines
\* 113-119 of assignment.py) builds the submission dicts without an 'id', so
\* the first assignment that has a submission raises KeyError, and with no
\* submission anywhere no assignment is found (line 211).
GradeAssignment(teacher_id, submission_id, grade, feedback) ==
    /\ call.op = "none"
    /\ assignments' = assignments
    /\ call' = Replied("grade_assignment", 1, submission_id, None, grade,
                       IF \E k \in 1..Len(assignments) : DOMAIN assignments[k].submissions # {}
                       THEN KeyError ELSE ValueError)
    /\ UNCHANGED <<storage, thr, now, grades, users, notifications>>

\* Time passes between two calls.
Tick ==
    /\ call.op = "none"
    /\ now < MaxNow
    /\ now' = now + 1
    /\ UNCHANGED <<storage, call, thr, assignments, grades, users, notifications>>

\* ------------------------------------------------------------ AssignmentRepository

AttributeError == "AttributeError"

\* get_all(): the assignments in insertion order, named by their position.
GetAll == [k \in 1..Len(assignments) |-> k]

Queried(op, ret, out) ==
    [NoCall EXCEPT !.op = op, !.ret = ret, !.out = out, !.pre = assignments]

\* now + datetime.timedelta(days=days) (line 34): datetime is the class
\* imported at line 2, and it has no attribute timedelta.
DueLimit(days) == AttributeError

\* AssignmentRepository.get_due_soon
GetDueSoon(days) ==
    /\ call.op = "none"
    /\ LET due_date == DueLimit(days)
           soon(k) == /\ assignments[k].status = AssignmentStatus.PUBLISHED
                      /\ now < assignments[k].due_date
                      /\ assignments[k].due_date <= due_date
       IN  IF due_date = AttributeError
           THEN call' = Queried("get_due_soon", AttributeError, <<>>)
           ELSE call' = Queried("get_due_soon", None, SelectSeq(GetAll, soon))
    /\ UNCHANGED <<storage, thr, assignments, now, grades, users, notifications>>

\* AssignmentRepository.get_overdue
GetOverdue ==
    /\ call.op = "none"
    /\ LET late(k) == /\ assignments[k].due_date < now
                      /\ assignments[k].status \in
                            {AssignmentStatus.PUBLISHED, AssignmentStatus.IN_PROGRESS}
       IN  call' = Queried("get_overdue", None, SelectSeq(GetAll, late))
    /\ UNCHANGED <<storage, thr, assignments, now, grades, users, notifications>>

\* AssignmentRepository.get_active_assignments
GetActiveAssignments ==
    /\ call.op = "none"
    /\ LET active(k) == /\ assignments[k].status \in
                              {AssignmentStatus.PUBLISHED, AssignmentStatus.IN_PROGRESS}
                        /\ assignments[k].due_date > now
       IN  call' = Queried("get_active_assignments", None, SelectSeq(GetAll, active))
    /\ UNCHANGED <<storage, thr, assignments, now, grades, users, notifications>>

\* get_by_teacher(teacher_id)
GetByTeacher(teacher_id) ==
    LET taught(k) == assignments[k].teacher_id = teacher_id
    IN  SelectSeq(GetAll, taught)

\* sum(1 for s in assignment._submissions.values() if s.get('status') == 'submitted')
Ungraded(a) == Cardinality({s \in DOMAIN a.submissions : a.submissions[s].status = "submitted"})

\* AssignmentRepository.get_teacher_workload.  An assignment is named by its
\* position in the repository.
GetTeacherWorkload(teacher_id) ==
    /\ call.op = "none"
    /\ LET teacher_assignments == GetByTeacher(teacher_id)
           in_progress(k) == assignments[k].status \in
                                {AssignmentStatus.PUBLISHED, AssignmentStatus.IN_PROGRESS}
           active == SelectSeq(teacher_assignments, in_progress)
           to_grade(k) == Ungraded(assignments[k]) > 0
           needing == SelectSeq(active, to_grade)
           late(k) == assignments[k].due_date < now
       IN  call' = [Queried("get_teacher_workload", None,
                       [total_assignments |-> Len(teacher_assignments),
                        active_assignments |-> Len(active),
                        grading_needed |->
                            [i \in 1..Len(needing) |->
                                [assignment_id |-> needing[i],
                                 ungraded_count |-> Ungraded(assignments[needing[i]]),
                                 due_date |-> assignments[needing[i]].due_date]],
                        overdue_grading |-> Len(SelectSeq(active, late))])
                    EXCEPT !.teacher = teacher_id]
    /\ UNCHANGED <<storage, thr, assignments, now, grades, users, notifications>>

InitAssign ==
    /\ storage = <<>>
    /\ call = NoCall
    /\ thr = [t \in Threads |-> Idle]
    /\ assignments \in {<<NewAssignment(TeacherIds[1], d, DefaultMaxPoints)>> : d \in DueDates}
    /\ now = 0
    /\ grades = <<>>
    /\ users = NoUsers
    /\ notifications = <<>>

NextAssign ==
    \/ Status(1)
    \/ Publish(1)
    \/ \E s \in Students, c \in Contents : AddSubmission(1, s, c)
    \/ \E s \in Students, g \in GivenGrades : GradeSubmission(1, s, g, "ok")
    \/ \E s \in Students, g \in GivenGrades : GradeAssignment(TeacherIds[1], s, g, "ok")
    \/ GetDueSoon(7)
    \/ GetOverdue
    \/ GetActiveAssignments
    \/ \E x \in Teachers : GetTeacherWorkload(x)
    \/ Tick
    \/ Resume

SpecAssign == InitAssign /\ [][NextAssign]_vars

\* ------------------------------------------------------------ concurrent status reads
\* The assignment model takes no lock: callers on several threads run the
\* status property, add_submission and grade_submission on one assignment,
\* and the interpreter may switch threads between any two operations on
\* the object.  Each caller is at a line of the method it runs; a step is
\* one read or write of the assignment.  The assignment is the first of
\* the repository; the clock stands still while the callers run.

RuntimeError == "RuntimeError"

\* The keys of _submissions in the order of insertion: the submission of
\* "S1" is there from the start or never, "S2" is the student who submits.
InsertionOrder == <<"S1", "S2">>

Keys(a) ==
    LET present(x) == x \in DOMAIN a.submissions
    IN  SelectSeq(InsertionOrder, present)

Resting ==
    [pc |-> "idle", op |-> "none", student |-> None, branch |-> 0, used |-> 0, pos |-> 0,
     value |-> None, ret |-> None, before |-> None, serial |-> {}]

Running(t) == thr[t].pc \notin {"idle", "returned"}

\* The statuses a serial order of the running calls gives a status read,
\* once a write has changed the submissions to those of a: every read that
\* is running may come after the write.
Serialized(t, a) ==
    [u \in Threads |->
        IF u # t /\ Running(u) /\ thr[u].op = "status"
        THEN [thr[u] EXCEPT !.serial = @ \cup {UpdateStatus(a, now)}]
        ELSE thr[u]]

\* The status property is entered (line 71).  A read comes, in a serial
\* order, after the writes that have returned, and before or after a write
\* that is running.
StatusEnter(t) ==
    /\ thr[t].pc = "idle"
    /\ thr' = [thr EXCEPT ![t] =
          [Resting EXCEPT
              !.pc = "line76", !.op = "status",
              !.serial = {UpdateStatus(assignments[1], now)} \cup
                         {thr[u].before : u \in {v \in Threads : /\ Running(v)
                                                                 /\ thr[v].before # None}}]]
    /\ UNCHANGED <<storage, call, assignments, now, grades, users, notifications>>

\* add_submission, lines 111-115: the two tests.
SubmitEnter(t, student_id) ==
    /\ thr[t].pc = "idle"
    /\ LET a == assignments[1]
       IN  thr' = [thr EXCEPT ![t] =
              IF a.status = AssignmentStatus.DRAFT \/ student_id \in DOMAIN a.submissions
              THEN [Resting EXCEPT !.pc = "returned", !.op = "add_submission",
                                   !.student = student_id, !.ret = "False"]
              ELSE [Resting EXCEPT !.pc = "line117", !.op = "add_submission",
                                   !.student = student_id]]
    /\ UNCHANGED <<storage, call, assignments, now, grades, users, notifications>>

\* add_submission, lines 117-124: the submission is stored and
\* _update_status is called.
SubmitStore(t) ==
    /\ thr[t].pc = "line117"
    /\ LET a == assignments[1]
           submitted == [a EXCEPT !.submissions = Put(@, thr[t].student,
                            [content |-> "essay", submitted_at |-> now, status |-> "submitted",
                             grade |-> NoGrade, feedback |-> None])]
       IN  /\ assignments' = [assignments EXCEPT ![1] = submitted]
           /\ thr' = [Serialized(t, submitted) EXCEPT
                         ![t].pc = "line76", ![t].before = UpdateStatus(a, now)]
    /\ UNCHANGED <<storage, call, now, grades, users, notifications>>

\* grade_submission, line 138: the test.
GradeEnter(t, student_id, grade) ==
    /\ thr[t].pc = "idle"
    /\ thr' = [thr EXCEPT ![t] =
          IF student_id \notin DOMAIN assignments[1].submissions
          THEN [Resting EXCEPT !.pc = "returned", !.op = "grade_submission",
                               !.student = student_id, !.value = grade, !.ret = "False"]
          ELSE [Resting EXCEPT !.pc = "line142", !.op = "grade_submission",
                               !.student = student_id, !.value = grade]]
    /\ UNCHANGED <<storage, call, assignments, now, grades, users, notifications>>

\* grade_submission, lines 142-157: the grade record and the submission are
\* written and _update_status is called.  No other call of this
\* specification reads _grades, so its write is not a step of its own.
GradeStore(t) ==
    /\ thr[t].pc = "line142"
    /\ LET a == assignments[1]
           clamped == Clamp(thr[t].value, a.max_points)
           graded == [a EXCEPT
               !.grades = Put(@, thr[t].student,
                              [grade |-> clamped, feedback |-> "ok", graded_at |-> now,
                               graded_by |-> a.teacher_id]),
               !.submissions[thr[t].student] =
                   [@ EXCEPT !.status = "graded", !.grade = clamped, !.feedback = "ok"]]
       IN  /\ assignments' = [assignments EXCEPT ![1] = graded]
           /\ thr' = [Serialized(t, graded) EXCEPT
                         ![t].pc = "line76", ![t].before = UpdateStatus(a, now)]
    /\ UNCHANGED <<storage, call, now, grades, users, notifications>>

\* iter(self._submissions.values()): the iterator remembers the size of the
\* dict and starts at its first entry.
Iterating(r, branch) ==
    [r EXCEPT !.pc = "next", !.branch = branch,
              !.used = Cardinality(DOMAIN assignments[1].submissions), !.pos = 0]

\* _update_status, lines 76-79: the clock is read and compared with the due
\* date; past the due date any() is given the values of _submissions.
Line76(t) ==
    /\ thr[t].pc = "line76"
    /\ thr' = [thr EXCEPT ![t] =
          IF now > assignments[1].due_date THEN Iterating(@, 1) ELSE [@ EXCEPT !.pc = "line82"]]
    /\ UNCHANGED <<storage, call, assignments, now, grades, users, notifications>>

\* The line _update_status goes to when the any() or all() of a branch is
\* false, and the status it stores when it is true.
Otherwise(branch) == IF branch = 1 THEN "line82" ELSE IF branch = 2 THEN "line85" ELSE "line88"

Stored(branch) ==
    IF branch = 1 THEN AssignmentStatus.OVERDUE
    ELSE IF branch = 2 THEN AssignmentStatus.SUBMITTED
    ELSE AssignmentStatus.GRADED

\* One next() of the iterator inside any() (lines 79, 82) or all() (line
\* 85): a dict whose size is not the size the iterator remembers raises
\* RuntimeError; at the end any() is False and all() is True; any() stops at
\* the first value that is not graded, all() at the first that is not.
NextValue(t) ==
    /\ thr[t].pc = "next"
    /\ LET r == thr[t]
           a == assignments[1]
           graded == a.submissions[Keys(a)[r.pos + 1]].status = "graded"
           true == [r EXCEPT !.pc = "store", !.value = Stored(r.branch)]
           false == [r EXCEPT !.pc = Otherwise(r.branch)]
       IN  thr' = [thr EXCEPT ![t] =
              IF Cardinality(DOMAIN a.submissions) # r.used
              THEN [r EXCEPT !.pc = "returned", !.ret = RuntimeError]
              ELSE IF r.pos = r.used
              THEN IF r.branch = 3 THEN true ELSE false
              ELSE IF r.branch = 3
              THEN IF graded THEN [r EXCEPT !.pos = @ + 1] ELSE false
              ELSE IF graded THEN [r EXCEPT !.pos = @ + 1] ELSE true]
    /\ UNCHANGED <<storage, call, assignments, now, grades, users, notifications>>

\* Line 82: self._submissions and any(...)
Line82(t) ==
    /\ thr[t].pc = "line82"
    /\ thr' = [thr EXCEPT ![t] =
          IF DOMAIN assignments[1].submissions # {} THEN Iterating(@, 2)
          ELSE [@ EXCEPT !.pc = "line85"]]
    /\ UNCHANGED <<storage, call, assignments, now, grades, users, notifications>>

\* Line 85: self._submissions and all(...)
Line85(t) ==
    /\ thr[t].pc = "line85"
    /\ thr' = [thr EXCEPT ![t] =
          IF DOMAIN assignments[1].submissions # {} THEN Iterating(@, 3)
          ELSE [@ EXCEPT !.pc = "line88"]]
    /\ UNCHANGED <<storage, call, assignments, now, grades, users, notifications>>

\* Line 88: self._status == PUBLISHED
Line88(t) ==
    /\ thr[t].pc = "line88"
    /\ thr' = [thr EXCEPT ![t] =
          IF assignments[1].status = AssignmentStatus.PUBLISHED
          THEN [@ EXCEPT !.pc = "store", !.value = AssignmentStatus.IN_PROGRESS]
          ELSE [@ EXCEPT !.pc = "return"]]
    /\ UNCHANGED <<storage, call, assignments, now, grades, users, notifications>>

\* self._status = ... (lines 80, 83, 86, 89)
Store(t) ==
    /\ thr[t].pc = "store"
    /\ assignments' = [assignments EXCEPT ![1].status = thr[t].value]
    /\ thr' = [thr EXCEPT ![t].pc = "return"]
    /\ UNCHANGED <<storage, call, now, grades, users, notifications>>

\* return self._status (line 72), return True (lines 125, 158)
Return(t) ==
    /\ thr[t].pc = "return"
    /\ thr' = [thr EXCEPT ![t].pc = "returned",
                          ![t].ret = IF thr[t].op = "status" THEN assignments[1].status
                                     ELSE "True"]
    /\ UNCHANGED <<storage, call, assignments, now, grades, users, notifications>>

\* The caller goes on to its next call.
Leave(t) ==
    /\ thr[t].pc = "returned"
    /\ thr' = [thr EXCEPT ![t] = Resting]
    /\ UNCHANGED <<storage, call, assignments, now, grades, users, notifications>>

\* The submission "S1" may have at the start.
FirstSubmission(status) ==
    [content |-> "essay", submitted_at |-> 0, status |-> status,
     grade |-> IF status = "graded" THEN 50 ELSE NoGrade,
     feedback |-> IF status = "graded" THEN "ok" ELSE None]

\* A published assignment without a submission, or with the submission of
\* "S1", graded or not, on or after the due date; its stored status is the
\* one _update_status has left.
InitRead ==
    /\ storage = <<>>
    /\ call = NoCall
    /\ thr = [t \in Threads |-> Resting]
    /\ now \in {1, 2}
    /\ \E status \in {None, "submitted", "graded"} :
          LET a == [NewAssignment(TeacherIds[1], 1, DefaultMaxPoints) EXCEPT
                       !.status = AssignmentStatus.PUBLISHED,
                       !.submissions = IF status = None THEN EmptyDict
                                       ELSE Put(EmptyDict, "S1", FirstSubmission(status)),
                       !.grades = IF status = "graded"
                                  THEN Put(EmptyDict, "S1",
                                           [grade |-> 50, feedback |-> "ok", graded_at |-> 0,
                                            graded_by |-> TeacherIds[1]])
                                  ELSE EmptyDict]
          IN  assignments = <<[a EXCEPT !.status = UpdateStatus(a, now)]>>
    /\ grades = <<>>
    /\ users = NoUsers
    /\ notifications = <<>>

NextRead ==
    \/ \E t \in Threads : StatusEnter(t)
    \/ \E t \in Threads : SubmitEnter(t, "S2")
    \/ \E t \in Threads : SubmitStore(t)
    \/ \E t \in Threads, x \in Students : GradeEnter(t, x, 80)
    \/ \E t \in Threads : GradeStore(t)
    \/ \E t \in Threads : Line76(t)
    \/ \E t \in Threads : NextValue(t)
    \/ \E t \in Threads : Line82(t)
    \/ \E t \in Threads : Line85(t)
    \/ \E t \in Threads : Line88(t)
    \/ \E t \in Threads : Store(t)
    \/ \E t \in Threads : Return(t)
    \/ \E t \in Threads : Leave(t)

SpecRead == InitRead /\ [][NextRead]_vars

\* ------------------------------------------------------------ Grade
\* Grade.__init__ cannot complete (line 38 subscripts an int, as the other
\* ids), so the grades a repository holds are given with the fields __init__
\* assigns after the id; the services and methods are modelled as written.
\* Scores and maxima are decimal numbers with two places, written in
\* hundredths (8000 is 80.0).  A comment text is the sequence of the pieces
\* that "\n---\n" joins: the empty text is <<>>, a text written in one piece
\* is <<text>>.

GradeIds == <<"G1", "G2", "G3", "G4", "G5", "G6", "G7">>

UnknownGradeId == "G9"

\* Grade ids a caller asks for.
AskedGradeIds == {GradeIds[1], UnknownGradeId}

\* Stored scores and maxima of the first grade at the start.
StoredScores == {0, 4000, 8000}

StoredMaxima == {5000, 10000}

\* Arguments of the calls (NoScore / None: argument not given).
ScoreArgs == {NoScore, 0 - 500, 0, 6000, 12000}

MaxScoreArgs == {NoScore, 0, 5000, 10000}

CommentArgs == {None, "late work"}

\* The joining update_grade of the model is not run on a text of this many
\* pieces.
MaxComments == 3

\* The text of a str argument.
Str(text) == IF text = "" THEN <<>> ELSE <<text>>

\* The fields Grade.__init__ assigns (lines 39-49), with the id given.
NewGrade(id, student_id, teacher_id, score, max_score, comments) ==
    [id |-> id, student_id |-> student_id, teacher_id |-> teacher_id, score |-> score,
     max_score |-> max_score, comments |-> Str(comments), updated_at |-> "earlier",
     is_final |-> FALSE]

\* f"grade_{len(str(hash(str(datetime.now()))))[-8:]}" (line 38): len(...)
\* is an int and is not subscriptable.
NewGradeId == TypeError

\* The members of GradeType, by value.
GradeTypeValues == {"assignment", "exam", "quiz", "participation", "project", "homework"}

\* str.upper() on the type names a caller passes.
Upper(text) ==
    CASE text = "exam" -> "EXAM"
      [] text = "EXAM" -> "EXAM"
      [] text = "quiz" -> "QUIZ"
      [] OTHER -> text

\* GradeType(grade_type.upper()) for a str (lines 54-55), the member itself
\* otherwise.  Members are written "GradeType.X".
GradeTypes == {"GradeType.EXAM", "GradeType.QUIZ"}

AsGradeType(grade_type) ==
    IF grade_type \in GradeTypes THEN grade_type
    ELSE IF Upper(grade_type) \in GradeTypeValues THEN Upper(grade_type)
    ELSE ValueError

GradeCall(op, id, k, score, max_score, comments, ret) ==
    [NoCall EXCEPT !.op = op, !.id = id, !.k = k, !.score = score, !.max_score = max_score,
                   !.comments = comments, !.ret = ret, !.pre = grades]

\* grade_repo.get(grade_id): the position of the grade, 0 for None.
GradeRepoGet(grade_id) ==
    IF \E k \in 1..Len(grades) : grades[k].id = grade_id
    THEN CHOOSE k \in 1..Len(grades) : grades[k].id = grade_id
    ELSE 0

\* GradeService.record_grade.  _notify_grade_recorded (line 73) is not
\* reached.
RecordGrade(student_id, grade_type, score, teacher_id, max_score, comments) ==
    /\ call.op = "none"
    /\ IF score < 0 \/ score > max_score
       THEN /\ grades' = grades
            /\ call' = GradeCall("record_grade", None, 0, score, max_score, comments, ValueError)
       ELSE IF AsGradeType(grade_type) = ValueError
       THEN /\ grades' = grades
            /\ call' = GradeCall("record_grade", None, 0, score, max_score, comments, ValueError)
       ELSE IF NewGradeId = TypeError
       THEN /\ grades' = grades
            /\ call' = GradeCall("record_grade", None, 0, score, max_score, comments, TypeError)
       ELSE /\ grades' = Append(grades, NewGrade(NewGradeId, student_id, teacher_id, score,
                                                 max_score, comments))
            /\ call' = GradeCall("record_grade", NewGradeId, Len(grades) + 1, score, max_score,
                                 comments, "Grade")
    /\ UNCHANGED <<storage, thr, assignments, now, users, notifications>>

\* Mutant of Scored: the new score is added to the stored one.
ScoredAdds(g, score) == [g EXCEPT !.score = @ + score]

\* grade._score = score (line 158)
Scored(g, score) == [g EXCEPT !.score = score]

\* user_repo.get(key) finds a user: BaseRepository.get on the keys _get_key
\* gives users, their e-mail.
Known(key) == key \in DOMAIN users

\* user_repo.get(key) for a key it finds.
UserRepoGet(key) == users[key]

\* What create_notification can do: build and store the notification, or
\* fail (Notification(...) or add raising).
SinkOutcomes == {"stored", "raises"}

\* The exception a failing create_notification raises.
SinkFailure == "Exception"

\* The notifications the repository holds are bounded.
MaxNotifications == 2

\* create_notification for a grade (grade_service.py:188-206): the fields
\* of the notification that depend on the grade and the recipient.
GradeNotification(recipient_id, g) ==
    [recipient_id |-> recipient_id, related_entity_id |-> g.id,
     related_entity_type |-> "grade", score |-> g.score, max_score |-> g.max_score]

\* Mutant of AfterSink: a failing sink restores the grades.
AfterSinkRollsBack(before, updated, sink) == IF sink = "raises" THEN before ELSE updated

\* The grades once create_notification has returned or raised: update_grade
\* has no handler around line 176, so the updated grades stay as they are.
AfterSink(before, updated, sink) == updated

\* GradeService.update_grade.  An exception raised at lines 161-164 leaves
\* the assignment of line 158 in place.  _notify_grade_updated (line 176)
\* looks student and teacher up in the user repository under the ids the
\* grade holds and returns when either is missing (users are stored under
\* their e-mail); otherwise it hands the notification to the sink, whose
\* exception leaves update_grade.
UpdateGrade(grade_id, score, max_score, comments) ==
    /\ call.op = "none"
    /\ Len(notifications) < MaxNotifications
    /\ LET k == GradeRepoGet(grade_id)
           g == grades[k]
           max == IF max_score # NoScore THEN max_score ELSE g.max_score
           scored == IF score # NoScore THEN Scored(g, score) ELSE g
           limited == IF max_score # NoScore THEN [scored EXCEPT !.max_score = max_score]
                      ELSE scored
           commented == IF comments # None THEN [limited EXCEPT !.comments = Str(comments)]
                        ELSE limited
           grade == [commented EXCEPT !.updated_at = "now"]
           updated == [grades EXCEPT ![k] = grade]
           student == UserRepoGet(grade.student_id)
       IN  IF k = 0
           THEN /\ grades' = grades
                /\ call' = GradeCall("update_grade", grade_id, 0, score, max_score, comments, None)
                /\ UNCHANGED notifications
           ELSE IF score # NoScore /\ (score < 0 \/ score > max)
           THEN /\ grades' = grades
                /\ call' = GradeCall("update_grade", grade_id, k, score, max_score, comments,
                                     ValueError)
                /\ UNCHANGED notifications
           ELSE IF max_score # NoScore /\ (max_score <= 0 \/ (score # NoScore /\ score > max_score))
           THEN /\ grades' = [grades EXCEPT ![k] = scored]
                /\ call' = GradeCall("update_grade", grade_id, k, score, max_score, comments,
                                     ValueError)
                /\ UNCHANGED notifications
           ELSE IF ~Known(grade.student_id) \/ ~Known(grade.teacher_id)
           THEN /\ grades' = updated
                /\ call' = GradeCall("update_grade", grade_id, k, score, max_score, comments,
                                     "Grade")
                /\ UNCHANGED notifications
           ELSE \E sink \in SinkOutcomes :
                /\ grades' = AfterSink(grades, updated, sink)
                /\ notifications' = IF sink = "stored"
                                    THEN Append(notifications, GradeNotification(student.id, grade))
                                    ELSE notifications
                /\ call' = GradeCall("update_grade", grade_id, k, score, max_score, comments,
                                     IF sink = "stored" THEN "Grade" ELSE SinkFailure)
    /\ UNCHANGED <<storage, thr, assignments, now, users>>

\* Grade.update_grade, the method of the model class, on the k-th grade.
GradeUpdateGrade(k, new_score, new_comments) ==
    /\ call.op = "none"
    /\ Len(grades[k].comments) < MaxComments
    /\ LET g == grades[k]
           scored == IF new_score # NoScore THEN [g EXCEPT !.score = new_score] ELSE g
           commented ==
               IF new_comments = None THEN scored
               ELSE IF scored.comments # <<>>
               THEN [scored EXCEPT !.comments = Append(@, new_comments)]
               ELSE [scored EXCEPT !.comments = Str(new_comments)]
       IN  /\ grades' = [grades EXCEPT ![k] = [commented EXCEPT !.updated_at = "now"]]
           /\ call' = GradeCall("Grade.update_grade", g.id, k, new_score, NoScore, new_comments,
                                None)
    /\ UNCHANGED <<storage, thr, assignments, now, users, notifications>>

\* The repository at the start: a first grade within its limits, with or
\* without a comment, and a second grade of another student.
InitGrade ==
    /\ storage = <<>>
    /\ call = NoCall
    /\ thr = [t \in Threads |-> Idle]
    /\ assignments = <<>>
    /\ now = 0
    /\ grades \in {<<NewGrade(GradeIds[1], "S1", TeacherIds[1], score, max_score, comments),
                     NewGrade(GradeIds[2], "S2", TeacherIds[1], 4000, 5000, "")>> :
                       score \in StoredScores, max_score \in StoredMaxima,
                       comments \in {"", "good"}}
    /\ \A k \in 1..Len(grades) : grades[k].score <= grades[k].max_score
    /\ users = NoUsers
    /\ notifications = <<>>

NextGrade ==
    \/ \E score \in ScoreArgs \ {NoScore}, max_score \in MaxScoreArgs \ {NoScore},
          grade_type \in {"GradeType.EXAM", "exam"} :
          RecordGrade("S1", grade_type, score, TeacherIds[1], max_score, "")
    \/ \E id \in AskedGradeIds, score \in ScoreArgs, max_score \in MaxScoreArgs,
          comments \in CommentArgs : UpdateGrade(id, score, max_score, comments)
    \/ \E new_score \in {NoScore, 6000}, new_comments \in CommentArgs :
          GradeUpdateGrade(1, new_score, new_comments)
    \/ Resume

SpecGrade == InitGrade /\ [][NextGrade]_vars

\* A user as the user repository holds it: _id is a uuid4 of its own, the
\* key is the e-mail.
NewUser(id, full_name) == [id |-> id, full_name |-> full_name, parent_ids |-> <<>>]

\* User repositories in which the ids the grades hold are keys: the student
\* and the teacher of the first grade, or the student alone.
SeededUsers ==
    {[key \in {"S1", TeacherIds[1]} |->
         IF key = "S1" THEN NewUser("U1", "Student One") ELSE NewUser("U2", "Teacher One")],
     [key \in {"S1"} |-> NewUser("U1", "Student One")]}

\* The grade service with a user repository that knows the users of the
\* grades, so that an update reaches the notification sink.
InitNotify ==
    /\ storage = <<>>
    /\ call = NoCall
    /\ thr = [t \in Threads |-> Idle]
    /\ assignments = <<>>
    /\ now = 0
    /\ grades \in {<<NewGrade(GradeIds[1], "S1", TeacherIds[1], score, 10000, "")>> :
                       score \in StoredScores}
    /\ users \in SeededUsers
    /\ notifications = <<>>

NextNotify ==
    \/ \E score \in ScoreArgs \ {NoScore}, grade_type \in {"GradeType.EXAM", "exam"} :
          RecordGrade("S1", grade_type, score, TeacherIds[1], 10000, "")
    \/ \E id \in AskedGradeIds, score \in ScoreArgs, max_score \in MaxScoreArgs,
          comments \in CommentArgs : UpdateGrade(id, score, max_score, comments)
    \/ Resume

SpecNotify == InitNotify /\ [][NextNotify]_vars

\* ------------------------------------------------------------ float
\* Python's float is the IEEE 754 binary64 number: every operation gives the
\* exact result rounded to 53 significant bits, ties to even.  A magnitude
\* is kept as its binary digits, IntBits of them before the point and
\* FracBits after it, most significant first; every value met below is 0 or
\* lies between 2^(53 - FracBits) and 2^IntBits, so that the digits hold it
\* exactly.

Mantissa == 53

IntBits == 15

FracBits == 76

Width == IntBits + FracBits

Zero == [i \in 1..Width |-> 0]

\* float(n) of a whole number 0 <= n < 2^IntBits
FromInt(n) ==
    [i \in 1..Width |-> IF i <= IntBits THEN (n \div 2^(IntBits - i)) % 2 ELSE 0]

\* a < b
Less(a, b) ==
    \E i \in 1..Width : a[i] < b[i] /\ \A j \in 1..(i - 1) : a[j] = b[j]

\* The digits are worked out from the last one, acc holding those done.
RECURSIVE AddFrom(_, _, _, _)
AddFrom(a, b, carry, acc) ==
    IF Len(acc) = Width THEN acc
    ELSE LET sum == a[Width - Len(acc)] + b[Width - Len(acc)] + carry
         IN  AddFrom(a, b, sum \div 2, <<sum % 2>> \o acc)

\* a + b, exactly
AddBits(a, b) == AddFrom(a, b, 0, <<>>)

RECURSIVE SubFrom(_, _, _, _)
SubFrom(a, b, borrow, acc) ==
    IF Len(acc) = Width THEN acc
    ELSE LET difference == a[Width - Len(acc)] - b[Width - Len(acc)] - borrow
         IN  SubFrom(a, b, IF difference < 0 THEN 1 ELSE 0, <<(difference + 2) % 2>> \o acc)

\* a - b for a >= b, exactly
SubBits(a, b) == SubFrom(a, b, 0, <<>>)

RECURSIVE MulFrom(_, _, _, _)
MulFrom(a, c, carry, acc) ==
    IF Len(acc) = Width THEN acc
    ELSE LET product == a[Width - Len(acc)] * c + carry
         IN  MulFrom(a, c, product \div 2, <<product % 2>> \o acc)

\* a * c for a whole number c, exactly
MulBits(a, c) == MulFrom(a, c, 0, <<>>)

\* Long division, from the first digit on.
RECURSIVE DivFrom(_, _, _, _)
DivFrom(a, n, rest, acc) ==
    IF Len(acc) = Width THEN [bits |-> acc, sticky |-> rest # 0]
    ELSE LET dividend == 2 * rest + a[Len(acc) + 1]
         IN  DivFrom(a, n, dividend % n, Append(acc, dividend \div n))

\* a / n for a whole number n > 0: the digits of the quotient, and whether
\* digits that are not all 0 follow them.
DivBits(a, n) == DivFrom(a, n, 0, <<>>)

\* The digits rounded to Mantissa significant bits, ties to even; sticky
\* says that the exact value is above the digits.
RoundBits(a, sticky) ==
    IF a = Zero THEN Zero
    ELSE LET lead == CHOOSE i \in 1..Width : a[i] = 1 /\ \A j \in 1..(i - 1) : a[j] = 0
             last == lead + Mantissa - 1
             kept == [i \in 1..Width |-> IF i <= last THEN a[i] ELSE 0]
             above == sticky \/ \E i \in (last + 2)..Width : a[i] = 1
             up == a[last + 1] = 1 /\ (above \/ a[last] = 1)
         IN  IF last >= Width THEN a
             ELSE IF up THEN AddBits(kept, [i \in 1..Width |-> IF i = last THEN 1 ELSE 0])
             ELSE kept

\* x + y, x * c and x / n of floats that are not negative
FloatAdd(x, y) == RoundBits(AddBits(x, y), FALSE)

FloatMul(x, c) == RoundBits(MulBits(x, c), FALSE)

FloatDiv(x, n) == RoundBits(DivBits(x, n).bits, DivBits(x, n).sticky)

\* A float with its sign.
Signed(neg, m) == [neg |-> neg /\ m # Zero, m |-> m]

\* x + y and x - y of floats with a sign
SignedAdd(x, y) ==
    IF x.neg = y.neg THEN Signed(x.neg, FloatAdd(x.m, y.m))
    ELSE IF Less(x.m, y.m) THEN Signed(y.neg, RoundBits(SubBits(y.m, x.m), FALSE))
    ELSE Signed(x.neg, RoundBits(SubBits(x.m, y.m), FALSE))

SignedSub(x, y) == SignedAdd(x, Signed(~y.neg, y.m))

\* The whole number the first IntBits digits stand for.
RECURSIVE Whole(_, _)
Whole(a, i) == IF i = 0 THEN 0 ELSE 2 * Whole(a, i - 1) + a[i]

\* round(x, 2) for x >= 0, in hundredths: the multiple of 0.01 nearest to the
\* exact value of x, the even one when x is exactly half way.
Round2(x) ==
    LET scaled == MulBits(x, 100)
        whole == Whole(scaled, IntBits)
        half == scaled[IntBits + 1] = 1
        more == \E i \in (IntBits + 2)..Width : scaled[i] = 1
    IN  IF half /\ (more \/ whole % 2 = 1) THEN whole + 1 ELSE whole

\* ------------------------------------------------------------ class average

\* float of the decimal number written with two places, given in hundredths
Decimal(hundredths) == FloatDiv(FromInt(hundredths), 100)

\* Grade.percentage.  The maximum is a whole number of points.
Percentage(g) ==
    IF g.max_score = 0 THEN Zero
    ELSE FloatMul(FloatDiv(Decimal(g.score), g.max_score \div 100), 100)

\* sum() that adds from left to right, as CPython does up to 3.11.
RECURSIVE SumFrom(_, _, _)
SumFrom(percentages, i, total) ==
    IF i > Len(percentages) THEN total
    ELSE SumFrom(percentages, i + 1, FloatAdd(total, percentages[i]))

\* sum() with Neumaier's compensation, as CPython does from 3.12 on: c
\* collects what each addition lost and is added at the end.
RECURSIVE CompensatedSumFrom(_, _, _, _)
CompensatedSumFrom(percentages, i, f_result, c) ==
    IF i > Len(percentages)
    THEN IF c.m # Zero THEN SignedAdd(Signed(FALSE, f_result), c).m ELSE f_result
    ELSE LET x == percentages[i]
             t == FloatAdd(f_result, x)
             lost == IF ~Less(f_result, x)
                     THEN SignedAdd(SignedSub(Signed(FALSE, f_result), Signed(FALSE, t)),
                                    Signed(FALSE, x))
                     ELSE SignedAdd(SignedSub(Signed(FALSE, x), Signed(FALSE, t)),
                                    Signed(FALSE, f_result))
         IN  CompensatedSumFrom(percentages, i + 1, t, SignedAdd(c, lost))

Summations == {"left to right", "compensated"}

\* sum(percentages) of a list that is not empty
Sum(percentages, summation) ==
    IF summation = "compensated"
    THEN CompensatedSumFrom(percentages, 2, percentages[1], Signed(FALSE, Zero))
    ELSE SumFrom(percentages, 2, percentages[1])

\* max(percentages) and min(percentages)
Max(percentages) ==
    percentages[CHOOSE i \in 1..Len(percentages) :
                    \A j \in 1..Len(percentages) : ~Less(percentages[i], percentages[j])]

Min(percentages) ==
    percentages[CHOOSE i \in 1..Len(percentages) :
                    \A j \in 1..Len(percentages) : ~Less(percentages[j], percentages[i])]

\* Grade.calculate_class_average on the list of the stored grades; the
\* rounded values of the result are in hundredths.
CalculateClassAverage(summation) ==
    /\ call.op = "none"
    /\ LET percentages == [k \in 1..Len(grades) |-> Percentage(grades[k])]
       IN  call' = [NoCall EXCEPT
               !.op = "calculate_class_average", !.pre = grades,
               !.out = IF grades = <<>>
                       THEN [average |-> 0, highest |-> 0, lowest |-> 0, count |-> 0]
                       ELSE [average |-> Round2(FloatDiv(Sum(percentages, summation),
                                                         Len(percentages))),
                             highest |-> Round2(Max(percentages)),
                             lowest |-> Round2(Min(percentages)),
                             count |-> Len(grades)]]
    /\ UNCHANGED <<storage, thr, assignments, now, grades, users, notifications>>

\* Score and maximum of the grades that are averaged, in hundredths.
AverageCases == {<<19957, 20000>>, <<3049, 4000>>, <<100, 300>>, <<0, 5000>>}

\* Lists of up to MaxGrades grades, and of up to MaxCopies grades with the
\* same score and maximum.
MaxGrades == 3

MaxCopies == 6

InitAverage ==
    /\ storage = <<>>
    /\ call = NoCall
    /\ thr = [t \in Threads |-> Idle]
    /\ assignments = <<>>
    /\ now = 0
    /\ \E n \in 0..MaxCopies : \E cases \in [1..n -> AverageCases] :
          /\ n > MaxGrades => \A k \in 1..n : cases[k] = cases[1]
          /\ grades = [k \in 1..n |-> NewGrade(GradeIds[k], "S1", TeacherIds[1],
                                               cases[k][1], cases[k][2], "")]
    /\ users = NoUsers
    /\ notifications = <<>>

NextAverage ==
    \/ \E summation \in Summations : CalculateClassAverage(summation)
    \/ Resume

SpecAverage == InitAverage /\ [][NextAverage]_vars

\* ------------------------------------------------------------ GradeRepository
\* repositories/grade_repository.py: the queries over the stored grades.
\* A datetime is a day and an hour of that day.

\* str.lower() on the subject names that occur.
Lower(text) ==
    CASE text = "Math" -> "math"
      [] text = "MATH" -> "math"
      [] text = "Art" -> "art"
      [] OTHER -> text

\* The fields Grade.__init__ assigns (lines 39-49), with the id given, the
\* subject and the time of creation among them.
StoredGrade(id, student_id, subject, score, max_score, created_at) ==
    [id |-> id, student_id |-> student_id, teacher_id |-> TeacherIds[1], subject |-> subject,
     score |-> score, max_score |-> max_score, comments |-> <<>>, created_at |-> created_at,
     updated_at |-> "earlier", is_final |-> FALSE]

\* Grade.letter_grade
LetterGrade(g) ==
    LET percentage == Percentage(g)
    IN  IF ~Less(percentage, FromInt(90)) THEN "A"
        ELSE IF ~Less(percentage, FromInt(80)) THEN "B"
        ELSE IF ~Less(percentage, FromInt(70)) THEN "C"
        ELSE IF ~Less(percentage, FromInt(60)) THEN "D"
        ELSE "F"

Letters == {"A", "B", "C", "D", "F"}

\* The key of the distribution that the loop of lines 80-90 adds one to.
Counted(pct) ==
    IF ~Less(pct, FromInt(90)) THEN "A"
    ELSE IF ~Less(pct, FromInt(80)) THEN "B"
    ELSE IF ~Less(pct, FromInt(70)) THEN "C"
    ELSE IF ~Less(pct, FromInt(60)) THEN "D"
    ELSE "F"

\* Mutant of CalculateGradeDistribution: a percentage counts for a letter
\* only above its threshold.
CalculateGradeDistributionAbove(percentages) ==
    LET above(pct) ==
            IF Less(FromInt(90), pct) THEN "A"
            ELSE IF Less(FromInt(80), pct) THEN "B"
            ELSE IF Less(FromInt(70), pct) THEN "C"
            ELSE IF Less(FromInt(60), pct) THEN "D"
            ELSE "F"
        letter == [i \in 1..Len(percentages) |-> above(percentages[i])]
    IN  [x \in Letters |-> Cardinality({i \in 1..Len(percentages) : letter[i] = x})]

\* GradeRepository._calculate_grade_distribution
CalculateGradeDistribution(percentages) ==
    LET letter == [i \in 1..Len(percentages) |-> Counted(percentages[i])]
    IN  [x \in Letters |-> Cardinality({i \in 1..Len(percentages) : letter[i] = x})]

\* GradeRepository.get_subject_statistics; {} is the empty dict.
GetSubjectStatistics(subject, summation) ==
    /\ call.op = "none"
    /\ LET same(g) == Lower(g.subject) = Lower(subject)
           subject_grades == SelectSeq(grades, same)
           percentages == [i \in 1..Len(subject_grades) |-> Percentage(subject_grades[i])]
       IN  \E computed \in {percentages} :
             call' = [NoCall EXCEPT
               !.op = "get_subject_statistics", !.subject = subject, !.pre = grades,
               !.out = IF subject_grades = <<>> THEN EmptyDict
                       ELSE [subject |-> subject,
                             average_grade |-> FloatDiv(Sum(computed, summation), Len(computed)),
                             highest_grade |-> Max(computed),
                             lowest_grade |-> Min(computed),
                             total_grades |-> Len(computed),
                             grade_distribution |-> CalculateGradeDistribution(computed)]]
    /\ UNCHANGED <<storage, thr, assignments, now, grades, users, notifications>>

\* Score and maximum of the grades of the statistics, in hundredths: at and
\* just below the thresholds of the letters, and without a maximum.
LetterCases ==
    {<<9000, 10000>>, <<8999, 10000>>, <<8000, 10000>>, <<3500, 5000>>, <<6000, 10000>>,
     <<5999, 10000>>, <<0, 0>>}

\* The subjects of the first and the second grade.
SubjectCases == {<<"Math", "math">>, <<"Math", "Art">>, <<"Art", "Art">>}

\* The statistics are taken over up to this many grades.
MaxRecords == 2

Noon == 12

InitStatistics ==
    /\ storage = <<>>
    /\ call = NoCall
    /\ thr = [t \in Threads |-> Idle]
    /\ assignments = <<>>
    /\ now = 0
    /\ \E n \in 0..MaxRecords : \E cases \in [1..n -> LetterCases] :
       \E subjects \in SubjectCases :
          grades = [k \in 1..n |->
                       StoredGrade(GradeIds[k], IF k = 1 THEN "S1" ELSE "S2",
                                   subjects[((k - 1) % 2) + 1], cases[k][1], cases[k][2],
                                   [day |-> 0, hour |-> Noon])]
    /\ users = NoUsers
    /\ notifications = <<>>

NextStatistics ==
    \/ \E subject \in {"Math", "art"}, summation \in Summations :
          GetSubjectStatistics(subject, summation)
    \/ Resume

SpecStatistics == InitStatistics /\ [][NextStatistics]_vars

\* ------------------------------------------------------------ progress and trends

\* x < y for datetimes
Earlier(x, y) == x.day < y.day \/ (x.day = y.day /\ x.hour < y.hour)

\* sorted(grades, key=lambda x: x._created_at, reverse=True): the latest
\* first, grades of the same time in the order they had.
SortedLatestFirst(list) ==
    LET ahead(i) == {j \in 1..Len(list) :
                        \/ Earlier(list[i].created_at, list[j].created_at)
                        \/ (list[j].created_at = list[i].created_at /\ j < i)}
    IN  [r \in 1..Len(list) |-> list[CHOOSE i \in 1..Len(list) : Cardinality(ahead(i)) = r - 1]]

\* GradeRepository.get_student_grades without a grade_type; the subject is
\* None when it is not given.
GetStudentGrades(student_id, subject) ==
    LET of_student(g) == g.student_id = student_id
        of_subject(g) == Lower(g.subject) = Lower(subject)
        own == SelectSeq(grades, of_student)
    IN  SortedLatestFirst(IF subject # None THEN SelectSeq(own, of_subject) ELSE own)

\* Grade.gpa_points, as a whole number
GpaPoints(g) ==
    LET letter == LetterGrade(g)
    IN  IF letter = "A" THEN 4
        ELSE IF letter = "B" THEN 3
        ELSE IF letter = "C" THEN 2
        ELSE IF letter = "D" THEN 1
        ELSE 0

RECURSIVE Total(_, _)
Total(numbers, i) == IF i = 0 THEN 0 ELSE Total(numbers, i - 1) + numbers[i]

\* x + 5 of floats
Plus5(x) == FloatAdd(x, FromInt(5))

\* Mutant of Trend: the first percentage is taken for the oldest.
TrendFromOldest(percentages) ==
    IF Len(percentages) >= 2
    THEN IF Less(Plus5(percentages[1]), percentages[Len(percentages)]) THEN "decreasing"
         ELSE IF Less(Plus5(percentages[Len(percentages)]), percentages[1]) THEN "increasing"
         ELSE "stable"
    ELSE "stable"

\* The trend of get_student_progress (lines 126-133): percentages[0] is the
\* percentage of the first grade of the list, percentages[-1] of the last.
Trend(percentages) ==
    IF Len(percentages) >= 2
    THEN IF Less(Plus5(percentages[Len(percentages)]), percentages[1]) THEN "decreasing"
         ELSE IF Less(Plus5(percentages[1]), percentages[Len(percentages)]) THEN "increasing"
         ELSE "stable"
    ELSE "stable"

\* strftime('%Y-%m-%d'): the day of a datetime.  The strings of two days
\* compare as the days do.
DateStr(t) == t.day

\* The statistics of one subject in get_student_progress (lines 113-121),
\* from the percentages and letters of the grades in the order of the list.
SubjectStats(subjects, percentages, letters, subj, summation) ==
    LET of_subj == {i \in 1..Len(subjects) : subjects[i] = subj}
        first == CHOOSE i \in of_subj : \A j \in of_subj : i <= j
        at(r) == CHOOSE i \in of_subj : Cardinality({j \in of_subj : j < i}) = r - 1
        subj_percentages == [r \in 1..Cardinality(of_subj) |-> percentages[at(r)]]
    IN  [average |-> FloatDiv(Sum(subj_percentages, summation), Len(subj_percentages)),
         count |-> Len(subj_percentages),
         latest_grade |-> letters[first]]

\* GradeRepository.get_student_progress
GetStudentProgress(student_id, subject, summation) ==
    /\ call.op = "none"
    /\ LET list == GetStudentGrades(student_id, subject)
       IN  \E percentages \in {[i \in 1..Len(list) |-> Percentage(list[i])]},
              letters \in {[i \in 1..Len(list) |-> LetterGrade(list[i])]} :
             LET gpa_points == [i \in 1..Len(list) |-> GpaPoints(list[i])]
                 subjects == [i \in 1..Len(list) |-> list[i].subject]
                 recent == IF Len(list) > 5 THEN 5 ELSE Len(list)
             IN  call' = [NoCall EXCEPT
                   !.op = "get_student_progress", !.student = student_id,
                   !.subject = subject, !.pre = grades,
                   !.out = IF list = <<>> THEN EmptyDict
                           ELSE [student_id |-> student_id,
                                 subject |-> IF subject # None THEN subject ELSE "all",
                                 average_grade |-> FloatDiv(Sum(percentages, summation),
                                                            Len(percentages)),
                                 gpa |-> FloatDiv(FromInt(Total(gpa_points, Len(gpa_points))),
                                                  Len(gpa_points)),
                                 total_grades |-> Len(list),
                                 trend |-> Trend(percentages),
                                 subject_stats |->
                                     IF subject # None THEN None
                                     ELSE [subj \in {subjects[i] : i \in 1..Len(list)} |->
                                              SubjectStats(subjects, percentages, letters, subj,
                                                           summation)],
                                 recent_grades |->
                                     [i \in 1..recent |->
                                         [subject |-> list[i].subject, score |-> list[i].score,
                                          max_score |-> list[i].max_score,
                                          percentage |-> percentages[i],
                                          letter_grade |-> letters[i],
                                          date |-> DateStr(list[i].created_at)]]]]
    /\ UNCHANGED <<storage, thr, assignments, now, grades, users, notifications>>

\* x - 5 of a float that is not negative
Minus5(x) == SignedSub(Signed(FALSE, x), Signed(FALSE, FromInt(5)))

\* GradeRepository._calculate_trend on the averages of the days, the
\* earliest day first.
CalculateTrend(averages) ==
    IF Len(averages) < 2 THEN "insufficient_data"
    ELSE LET first == averages[1]
             last == averages[Len(averages)]
         IN  IF Less(Plus5(first), last) THEN "improving"
             ELSE IF ~Minus5(first).neg /\ Less(last, Minus5(first).m) THEN "declining"
             ELSE "stable"

\* The grades are recorded and asked for on these days.
Today == 3

\* GradeRepository.get_grade_trends, called at noon of the day now.
GetGradeTrends(student_id, subject, days, summation) ==
    /\ call.op = "none"
    /\ LET cutoff_date == [day |-> now - days, hour |-> Noon]
           since(g) == ~Earlier(g.created_at, cutoff_date)
           list == SelectSeq(GetStudentGrades(student_id, subject), since)
       IN  \E percentages \in {[i \in 1..Len(list) |-> Percentage(list[i])]} :
             LET dates == {DateStr(list[i].created_at) : i \in 1..Len(list)}
                 \* sorted(daily_grades.items())
                 date(r) == CHOOSE d \in dates : Cardinality({e \in dates : e < d}) = r - 1
                 on(d) == {i \in 1..Len(list) : DateStr(list[i].created_at) = d}
                 at(d, r) == CHOOSE i \in on(d) : Cardinality({j \in on(d) : j < i}) = r - 1
                 daily(d) == [r \in 1..Cardinality(on(d)) |-> percentages[at(d, r)]]
             IN  \E trend_data \in
                       {[r \in 1..Cardinality(dates) |->
                            [date |-> date(r),
                             average |-> FloatDiv(Sum(daily(date(r)), summation),
                                                  Len(daily(date(r)))),
                             count |-> Len(daily(date(r)))]]} :
                   call' = [NoCall EXCEPT
                     !.op = "get_grade_trends", !.student = student_id, !.subject = subject,
                     !.days = days, !.pre = grades,
                     !.out = IF list = <<>> THEN EmptyDict
                             ELSE [student_id |-> student_id, subject |-> subject,
                                   period_days |-> days,
                                   start_date |-> date(1),
                                   end_date |-> date(Cardinality(dates)),
                                   data_points |-> trend_data,
                                   overall_average |-> FloatDiv(Sum(percentages, summation),
                                                                Len(percentages)),
                                   grade_trend |->
                                       CalculateTrend([r \in 1..Len(trend_data) |->
                                                          trend_data[r].average])]]
    /\ UNCHANGED <<storage, thr, assignments, now, grades, users, notifications>>

\* Score and maximum of the grades of a student, in hundredths.
TrendCases == {<<5700, 10000>>, <<6200, 10000>>, <<8000, 10000>>}

\* When the first and the second grade were recorded: the second not before
\* the first.
CreatedCases ==
    {times \in [1..2 -> {[day |-> 1, hour |-> 9], [day |-> 1, hour |-> 15],
                         [day |-> 2, hour |-> 15]}] :
        ~Earlier(times[2], times[1])}

\* A third grade, recorded last: none, one of another student, one of the
\* same student in another subject, one more in the same subject.
ThirdGrades ==
    {<<>>,
     <<StoredGrade(GradeIds[3], "S2", "Math", 10000, 10000, [day |-> 2, hour |-> 15])>>,
     <<StoredGrade(GradeIds[3], "S1", "Art", 10000, 10000, [day |-> 2, hour |-> 15])>>,
     <<StoredGrade(GradeIds[3], "S1", "MATH", 6200, 10000, [day |-> 3, hour |-> 9])>>}

InitProgress ==
    /\ storage = <<>>
    /\ call = NoCall
    /\ thr = [t \in Threads |-> Idle]
    /\ assignments = <<>>
    /\ now = Today
    /\ \E n \in 0..2 : \E cases \in [1..n -> TrendCases] :
       \E times \in CreatedCases : \E third \in ThirdGrades :
          grades = [k \in 1..n |->
                       StoredGrade(GradeIds[k], "S1", "Math", cases[k][1], cases[k][2],
                                   times[k])] \o third
    /\ users = NoUsers
    /\ notifications = <<>>

NextProgress ==
    \/ \E subject \in {None, "math"}, summation \in Summations :
          GetStudentProgress("S1", subject, summation)
    \/ \E days \in {2, 90}, summation \in Summations :
          GetGradeTrends("S1", "math", days, summation)
    \/ Resume

SpecProgress == InitProgress /\ [][NextProgress]_vars

\* ------------------------------------------------------------ properties
\* What the properties say of a grid is written on the stored fields
\* themselves, not through the operators of the model above.

\* The sessions of a grid: day, position and the session dict.
Entries(grid) ==
    {[day |-> d, pos |-> i, s |-> grid[d][i]] : <<d, i>> \in Slots(grid)}

\* Half-open windows [s1, e1) and [s2, e2) overlap.
Clash(s1, e1, s2, e2) == s1 < e2 /\ e1 > s2

\* Stored 'HH:MM' as a time of the day in seconds.
AtSec(hm) == hm * 60

Count(grid) == Cardinality(Entries(grid))

\* The grid of the schedule the last call acted on, before and after it.
PreGrid == call.pre[call.k].schedule

PostGrid == storage[call.k].schedule

\* C1: after any sequence of addSession, updateSession and removeSession
\* calls, no two sessions of one weekday list that share a teacher_id have
\* overlapping [start_time, end_time) windows.
C1_NoTeacherOverlap ==
    \A k \in 1..Len(storage) :
        \A a \in Entries(storage[k].schedule), b \in Entries(storage[k].schedule) :
            (a.day = b.day /\ a.pos # b.pos /\ a.s.teacher_id = b.s.teacher_id)
                => ~Clash(a.s.start_time, a.s.end_time, b.s.start_time, b.s.end_time)

\* C1 witness: an update has just been accepted and its session shares the
\* day with another session of the same teacher.
C1_Witness ==
    /\ call.op = "update" /\ call.ret = "True"
    /\ \E a \in Entries(PostGrid), b \in Entries(PostGrid) :
          /\ a.s.id = call.sid /\ b.s.id # call.sid
          /\ a.day = b.day /\ a.s.teacher_id = b.s.teacher_id
          /\ a.s.start_time < a.s.end_time /\ b.s.start_time < b.s.end_time
          /\ call.start # NoTime /\ call.day # None

\* The claim's condition for addSession: some session already on that day
\* with the same teacher_id has start < existing_end and end > existing_start.
AddClashes ==
    \E e \in Entries(PreGrid) :
        /\ e.day = call.day /\ e.s.teacher_id = call.teacher
        /\ Clash(call.start, call.end, AtSec(e.s.start_time), AtSec(e.s.end_time))

\* C2: addSession returns true exactly when no session already on that day
\* with the same teacher_id overlaps the new window.
C2_AddReturnsTrueIffFree ==
    call.op = "add" => (call.ret = "True" <=> ~AddClashes)

\* C3: when addSession detects a conflict it returns false and leaves every
\* weekday list, the exceptions and last_updated exactly as before the call.
C3_RejectedAddChangesNothing ==
    (call.op = "add" /\ AddClashes) => (call.ret = "False" /\ storage = call.pre)

\* C3 witness: the schedule holds T1's monday session [09:00, 10:00) and
\* addSession(T1, monday, 09:30, 10:30) has returned false.
C3_Witness ==
    /\ call.op = "add" /\ call.ret = "False"
    /\ call.teacher = "T1" /\ call.day = "monday"
    /\ call.start = Time(9, 30, 0) /\ call.end = Time(10, 30, 0)
    /\ Len(PostGrid["monday"]) = 1
    /\ PostGrid["monday"][1].teacher_id = "T1"
    /\ PostGrid["monday"][1].start_time = 9 * 60
    /\ PostGrid["monday"][1].end_time = 10 * 60

\* The session an update or remove call names, as it was before the call
\* (ids name one session each).
Targets == {e \in Entries(PreGrid) : e.s.id = call.sid}

Found == Targets # {}

Target == CHOOSE e \in Targets : TRUE

\* The day and window an update call asks for: the given values, and the
\* session's own where none is given.
ResDay == IF call.day # None THEN call.day ELSE Target.day

ResStart == IF call.start # NoTime THEN call.start ELSE AtSec(Target.s.start_time)

ResEnd == IF call.end # NoTime THEN call.end ELSE AtSec(Target.s.end_time)

\* The resulting window overlaps another session of the same teacher on the
\* resulting day.
UpdateClashes ==
    \E e \in Entries(PreGrid) :
        /\ e.s.id # call.sid /\ e.day = ResDay
        /\ e.s.teacher_id = Target.s.teacher_id
        /\ Clash(ResStart, ResEnd, AtSec(e.s.start_time), AtSec(e.s.end_time))

\* C5: updateSession returns false and changes nothing in the schedule when
\* the session id is not found or the resulting window overlaps another
\* session of the same teacher on the resulting day.
C5_RejectedUpdateChangesNothing ==
    (call.op = "update" /\ (~Found \/ UpdateClashes))
        => (call.ret = "False" /\ storage = call.pre)

\* C5 witness: an update that moves a session to another day, onto a session
\* of the same teacher, has returned false.
C5_Witness ==
    /\ call.op = "update" /\ Found /\ UpdateClashes /\ call.ret = "False"
    /\ call.day # None /\ call.day # Target.day

\* Each day's list without the session the call names.
OthersInOrder(grid) ==
    [d \in DaySet |-> SelectSeq(grid[d], LAMBDA x : x.id # call.sid)]

\* C6: an update whose resulting window overlaps no other session of the
\* teacher on the resulting day succeeds (the session is no conflict with
\* itself); the session count is unchanged and the session is in the schedule
\* exactly once: on the new day, and no longer on the old one, when the day
\* changes, and at its place otherwise; only the given fields change and the
\* other sessions are as before.
C6_AcceptedUpdateMovesSession ==
    (call.op = "update" /\ Found /\ ~UpdateClashes) =>
        /\ call.ret = "True"
        /\ Count(PostGrid) = Count(PreGrid)
        /\ Cardinality({e \in Entries(PostGrid) : e.s.id = call.sid}) = 1
        /\ \A e \in Entries(PostGrid) : e.s.id = call.sid =>
              /\ e.day = ResDay
              /\ ResDay = Target.day => e.pos = Target.pos
              /\ ResDay # Target.day => e.pos = Len(PreGrid[ResDay]) + 1
              /\ e.s.teacher_id = Target.s.teacher_id
              /\ e.s.start_time = IF call.start # NoTime THEN call.start \div 60
                                  ELSE Target.s.start_time
              /\ e.s.end_time = IF call.end # NoTime THEN call.end \div 60
                                ELSE Target.s.end_time
              /\ e.s.room = IF call.room # None THEN call.room ELSE Target.s.room
        /\ OthersInOrder(PostGrid) = OthersInOrder(PreGrid)

\* C6 witness: an accepted update took a session away from a day it shared
\* with another session, and the window it kept unchanged is one it had.
C6_Witness ==
    /\ call.op = "update" /\ call.ret = "True" /\ Found
    /\ call.day # None /\ call.day # Target.day
    /\ Len(PreGrid[Target.day]) = 2 /\ Target.pos = 1
    /\ call.start = NoTime /\ call.room # None

\* C6 witness of the other case: an accepted update on the same day that
\* shifts the session onto a part of its own old window.
C6_WitnessInPlace ==
    /\ call.op = "update" /\ call.ret = "True" /\ Found
    /\ ResDay = Target.day
    /\ Clash(ResStart, ResEnd, AtSec(Target.s.start_time), AtSec(Target.s.end_time))
    /\ call.start # NoTime /\ call.start # AtSec(Target.s.start_time)

\* C7: removeSession removes exactly one session, the first whose id
\* matches, and returns true, leaving every other session unchanged; when no
\* session has the id it returns false and the schedule is unchanged.
C7_RemoveTakesOneSession ==
    call.op = "remove" =>
        IF Found
        THEN /\ call.ret = "True"
             /\ Count(PostGrid) = Count(PreGrid) - 1
             /\ \A d \in DaySet :
                   IF d = Target.day
                   THEN /\ Len(PostGrid[d]) = Len(PreGrid[d]) - 1
                        /\ \A j \in 1..Len(PostGrid[d]) :
                              PostGrid[d][j] = PreGrid[d][IF j < Target.pos THEN j ELSE j + 1]
                   ELSE PostGrid[d] = PreGrid[d]
             /\ storage[call.k].exceptions = call.pre[call.k].exceptions
        ELSE call.ret = "False" /\ storage = call.pre

\* C7 witness: the first of two sessions of a day has been removed.
C7_Witness ==
    /\ call.op = "remove" /\ call.ret = "True" /\ Found
    /\ Target.pos = 1 /\ Len(PreGrid[Target.day]) = 2
    /\ Len(PostGrid[Target.day]) = 1

\* C7 witness of the other case: a remove of an unknown id returned false
\* on a schedule that holds sessions.
C7_WitnessUnknown ==
    /\ call.op = "remove" /\ call.ret = "False" /\ ~Found
    /\ Count(PostGrid) = 2

Booked(teacher, day) ==
    UNION {{e.s : e \in {x \in Entries(storage[k].schedule) :
                            x.day = day /\ x.s.teacher_id = teacher}} :
           k \in 1..Len(storage)}

ReturnedSlots == {call.out[i] : i \in 1..Len(call.out)}

\* C8: every slot returned by teacherAvailability lies inside the work
\* window [08:00, 17:00) with start < end, and no two returned slots overlap.
C8_SlotsInsideWindow ==
    call.op = "availability" =>
        /\ \A x \in ReturnedSlots : 8 * 60 <= x.start /\ x.start < x.end /\ x.end <= 17 * 60
        /\ \A i \in 1..Len(call.out), j \in 1..Len(call.out) :
              i # j => ~Clash(call.out[i].start, call.out[i].end,
                              call.out[j].start, call.out[j].end)

\* C9: the slots returned by teacherAvailability are the complement of the
\* teacher's booked sessions within [08:00, 17:00): no returned slot overlaps
\* a session of that teacher on that day in any schedule, and every minute of
\* the window is in a returned slot or in a booked session.
C9_SlotsAreComplement ==
    call.op = "availability" =>
        /\ \A x \in ReturnedSlots, b \in Booked(call.teacher, call.day) :
              ~Clash(x.start, x.end, b.start_time, b.end_time)
        /\ \A m \in (8 * 60)..(17 * 60 - 1) :
              \/ \E x \in ReturnedSlots : x.start <= m /\ m < x.end
              \/ \E b \in Booked(call.teacher, call.day) : b.start_time <= m /\ m < b.end_time

\* A session of the day, in some schedule, is in the room with a window
\* that overlaps the window asked for.
RoomTaken(room) ==
    \E k \in 1..Len(storage) : \E e \in Entries(storage[k].schedule) :
        /\ e.day = call.day /\ e.s.room = room
        /\ Clash(call.start, call.end, AtSec(e.s.start_time), AtSec(e.s.end_time))

Catalog == {"Room 101", "Room 102", "Room 103", "Room 201", "Room 202", "Lab 1"}

\* C10: findAvailableRoom returns a room only if it is in the catalog, not
\* excluded, and in no overlapping session of that day in any schedule; it
\* returns None exactly when every catalog room that is not excluded is taken.
C10_RoomIsFreeOrNone ==
    call.op = "room" =>
        /\ call.ret # None =>
              call.ret \in Catalog /\ call.ret \notin call.excl /\ ~RoomTaken(call.ret)
        /\ call.ret = None <=> \A room \in Catalog \ call.excl : RoomTaken(room)

\* C10 witness: two rooms were left by the exclusions, both are taken in
\* the window by sessions of different schedules, and None was returned.
C10_Witness ==
    /\ call.op = "room" /\ call.ret = None
    /\ Cardinality(Catalog \ call.excl) = 2
    /\ Count(storage[1].schedule) = 1 /\ Count(storage[2].schedule) = 1

\* C10 witness of the other case: a room was returned while another
\* candidate was taken.
C10_WitnessRoom ==
    /\ call.op = "room" /\ call.ret # None
    /\ \E room \in Catalog \ call.excl : RoomTaken(room)

\* The sessions get_conflicts is asked about: those of the teacher on the
\* day, in a schedule of another class than the excluded one, whose window
\* overlaps the window asked for.
Matching ==
    {m \in [k : 1..Len(storage), day : {call.day}, pos : 1..Len(SessionIds)] :
        /\ m.pos <= Len(storage[m.k].schedule[m.day])
        /\ storage[m.k].class_id # call.exclude
        /\ storage[m.k].schedule[m.day][m.pos].teacher_id = call.teacher
        /\ Clash(call.start, call.end,
                 AtSec(storage[m.k].schedule[m.day][m.pos].start_time),
                 AtSec(storage[m.k].schedule[m.day][m.pos].end_time))}

\* The entry that reports session m.
EntryOf(m) ==
    [class_id |-> storage[m.k].class_id, teacher_id |-> call.teacher,
     existing_start |-> storage[m.k].schedule[m.day][m.pos].start_time,
     existing_end |-> storage[m.k].schedule[m.day][m.pos].end_time,
     conflict_start |-> call.start \div 60, conflict_end |-> call.end \div 60]

\* C11: getConflicts returns one entry for every session of the teacher on
\* the day, in every schedule of another class than the excluded one, whose
\* window overlaps [start, end), returns no other entry, and modifies no
\* schedule.
C11_ConflictsAreAllMatches ==
    call.op = "conflicts" =>
        /\ Len(call.out) = Cardinality(Matching)
        /\ \A m \in Matching :
              Cardinality({i \in 1..Len(call.out) : call.out[i] = EntryOf(m)})
                  = Cardinality({n \in Matching : EntryOf(n) = EntryOf(m)})
        /\ storage = call.pre

\* C11 witness: both sessions of one schedule, of the same teacher and
\* day, were reported.
C11_Witness ==
    /\ call.op = "conflicts" /\ Len(call.out) = 2
    /\ call.out[1].class_id = call.out[2].class_id

\* C11 witness of the other case: the session of one class was reported and
\* an overlapping session of the teacher in the excluded class was not.
C11_WitnessExcluded ==
    /\ call.op = "conflicts" /\ Len(call.out) = 1 /\ call.exclude = "C1"
    /\ call.out[1].class_id = "C2"
    /\ \E i \in 1..Len(storage[1].schedule[call.day]) :
          /\ storage[1].schedule[call.day][i].teacher_id = call.teacher
          /\ Clash(call.start, call.end, AtSec(storage[1].schedule[call.day][i].start_time),
                   AtSec(storage[1].schedule[call.day][i].end_time))

\* The schedule of the excluded class holds a session with exactly the
\* teacher, day and window asked about: the session an accepted addSession
\* with these arguments stores.
OwnSessionStored ==
    \E k \in 1..Len(storage) : \E e \in Entries(storage[k].schedule) :
        /\ storage[k].class_id = call.exclude
        /\ e.day = call.day /\ e.s.teacher_id = call.teacher
        /\ AtSec(e.s.start_time) = call.start /\ AtSec(e.s.end_time) = call.end

\* C12: after a successful addSession on the schedule of class C,
\* getConflicts for the identical teacher, day and window with
\* exclude_class_id = C returns an empty list, whatever sessions the other
\* schedules hold.
C12_NoConflictWithOwnSession ==
    (call.op = "conflicts" /\ OwnSessionStored) => call.out = <<>>

\* C12, the case the claim is about: the class's own session is stored and
\* getConflicts, excluding the class, was asked about its window.
C12_Witness ==
    /\ call.op = "conflicts" /\ OwnSessionStored /\ call.out = <<>>
    /\ Count(storage[1].schedule) = 1 /\ Count(storage[2].schedule) = 1

\* The call asks for a window that does not have start_time < end_time: the
\* window given to addSession, or the window an update results in.
MalformedRange ==
    \/ call.op = "add" /\ call.start >= call.end
    \/ call.op = "update" /\ Found /\ ResStart >= ResEnd

\* C13: addSession and updateSession reject a malformed time range
\* (start_time >= end_time) before any mutation: no stored session has
\* start >= end, and the rejected call leaves the schedule unchanged.
C13_MalformedRangeRejected ==
    /\ \A k \in 1..Len(storage) : \A e \in Entries(storage[k].schedule) :
          e.s.start_time < e.s.end_time
    /\ MalformedRange => (call.ret # "True" /\ storage = call.pre)

\* The last call was an operation on a schedule.
OnSchedule == call.op \in {"add", "update", "remove", "add_exception"}

\* C14: adding a calendar exception always succeeds, appends exactly one
\* entry to the exceptions list and leaves every weekday's session list
\* unchanged; no operation removes or reorders existing exceptions.
C14_ExceptionIsAppended ==
    /\ call.op = "add_exception" =>
          /\ call.ret # TypeError
          /\ Len(storage[call.k].exceptions) = Len(call.pre[call.k].exceptions) + 1
          /\ storage[call.k].exceptions[Len(storage[call.k].exceptions)].date = call.date
          /\ PostGrid = PreGrid
    /\ OnSchedule =>
          /\ Len(storage[call.k].exceptions) >= Len(call.pre[call.k].exceptions)
          /\ SubSeq(storage[call.k].exceptions, 1, Len(call.pre[call.k].exceptions))
                = call.pre[call.k].exceptions

\* The assignment the last call acted on, before and after it.
PreA == call.pre[call.k]

PostA == assignments[call.k]

\* The students with a submission, and those whose submission is graded.
Submitters == DOMAIN PostA.submissions

GradedOnes == {x \in Submitters : PostA.submissions[x].status = "graded"}

\* C15: whenever now > due_date and at least one submission is not graded,
\* a status read returns OVERDUE, even if other submissions are graded.
C15_OverdueDominates ==
    (call.op = "status" /\ now > PostA.due_date /\ Submitters \ GradedOnes # {})
        => call.ret = "overdue"

\* C15 witness: past the due date, one submission graded and one not, and
\* the status read returned OVERDUE.
C15_Witness ==
    /\ call.op = "status" /\ now > PostA.due_date /\ call.ret = "overdue"
    /\ GradedOnes # {} /\ Submitters \ GradedOnes # {}

\* C16: whenever the assignment has a submission and every submission is
\* graded, a status read returns GRADED, before and after the due date; a
\* grade above max_points is stored as max_points, and the status after the
\* grading of the last ungraded submission is GRADED.
C16_AllGradedReadsGraded ==
    /\ (call.op = "status" /\ Submitters # {} /\ GradedOnes = Submitters)
          => call.ret = "graded"
    /\ (call.op = "grade_submission" /\ call.ret = "True") =>
          /\ call.grade > PostA.max_points =>
                /\ PostA.submissions[call.student].grade = PostA.max_points
                /\ PostA.grades[call.student].grade = PostA.max_points
          /\ GradedOnes = Submitters => PostA.status = "graded"

\* C16 witness: a status read after the due date returned GRADED for an
\* assignment whose one submission came before the due date and holds the
\* grade max_points.
C16_Witness ==
    /\ call.op = "status" /\ now > PostA.due_date /\ call.ret = "graded"
    /\ Cardinality(Submitters) = 1
    /\ \A x \in Submitters :
          /\ PostA.submissions[x].submitted_at < PostA.due_date
          /\ PostA.submissions[x].grade = 100 /\ PostA.max_points = 100

\* C17: whenever now <= due_date (the due date included) and at least one
\* submission is not graded, a status read returns SUBMITTED; the status
\* after a successful addSubmission up to the due date is SUBMITTED.
C17_UngradedBeforeDueReadsSubmitted ==
    /\ (call.op = "status" /\ now <= PostA.due_date /\ Submitters \ GradedOnes # {})
          => call.ret = "submitted"
    /\ (call.op = "add_submission" /\ call.ret = "True" /\ now <= PostA.due_date)
          => PostA.status = "submitted"

\* C17 witness: a status read on the due date itself, with one submission
\* graded and one not, returned SUBMITTED.
C17_Witness ==
    /\ call.op = "status" /\ now = PostA.due_date /\ call.ret = "submitted"
    /\ GradedOnes # {} /\ Submitters \ GradedOnes # {}

\* C18: for an assignment that has been published and has no submissions,
\* every status read returns IN_PROGRESS, the first after publish() and
\* every later one, before or after the due date.
C18_PublishedReadsInProgress ==
    (call.op = "status" /\ PreA.status # "draft" /\ Submitters = {})
        => call.ret = "in_progress"

\* C18 witness: a later read, after the due date, of an assignment without
\* submissions whose stored status was IN_PROGRESS already.
C18_Witness ==
    /\ call.op = "status" /\ PreA.status = "in_progress" /\ Submitters = {}
    /\ now > PostA.due_date /\ call.ret = "in_progress"

\* C18 witness of the other case: the first read after publish().
C18_WitnessFirstRead ==
    /\ call.op = "status" /\ PreA.status = "published" /\ call.ret = "in_progress"

\* C19: DRAFT and CANCELLED are never produced by status derivation: a
\* DRAFT assignment stays DRAFT through every step but publish(), and reads
\* DRAFT at every time; an assignment that has left DRAFT never is DRAFT
\* again; no state has status CANCELLED.
C19_DraftAndCancelledNotDerived ==
    /\ \A k \in 1..Len(assignments) : assignments[k].status # "cancelled"
    /\ [][\A k \in 1..Len(assignments) :
            /\ assignments'[k].status # "cancelled"
            /\ assignments[k].status # "draft" => assignments'[k].status # "draft"
            /\ (assignments[k].status = "draft" /\ ~(call'.op = "publish" /\ call'.k = k))
                  => assignments'[k].status = "draft"
            /\ (assignments[k].status = "draft" /\ call'.op = "status" /\ call'.k = k)
                  => call'.ret = "draft"]_vars

\* C19 witness: a status read after the due date of an assignment that was
\* never published returned DRAFT.
C19_Witness ==
    /\ call.op = "status" /\ call.ret = "draft" /\ now > PostA.due_date
    /\ PreA.status = "draft"

\* What the queries of the repository return for a list of assignments at
\* the present time, by the stored status.
InProgressOrPublished(list) ==
    {k \in 1..Len(list) : list[k].status \in {"published", "in_progress"}}

OverdueIn(list) == {k \in InProgressOrPublished(list) : list[k].due_date < now}

ActiveIn(list) == {k \in InProgressOrPublished(list) : list[k].due_date > now}

\* C20: a status read leaves every stored field of the assignment unchanged,
\* so that publish, get_active_assignments and get_overdue give the same
\* result whether or not status was read before.
C20_StatusReadChangesNothing ==
    call.op = "status" =>
        /\ assignments = call.pre
        /\ (PostA.status = "draft") = (PreA.status = "draft")
        /\ OverdueIn(assignments) = OverdueIn(call.pre)
        /\ ActiveIn(assignments) = ActiveIn(call.pre)

\* C20, the case the claim is about: a status read of a published
\* assignment that is not yet due.
C20_Witness ==
    /\ call.op = "status" /\ PreA.status = "published" /\ now < PreA.due_date

\* C21: publish() returns true and moves the status from DRAFT to PUBLISHED
\* only when the stored status is DRAFT; in every other case, a second
\* publish included, it returns false and changes nothing.
C21_PublishOnlyFromDraft ==
    call.op = "publish" =>
        IF PreA.status = "draft"
        THEN /\ call.ret = "True"
             /\ assignments = [call.pre EXCEPT ![call.k].status = "published"]
        ELSE /\ call.ret = "False"
             /\ assignments = call.pre

\* C21 witness: publish() on an assignment whose stored status is still
\* PUBLISHED, that is directly after a first publish, returned false.
C21_Witness ==
    /\ call.op = "publish" /\ PreA.status = "published" /\ call.ret = "False"
    /\ PostA.status = "published"

\* C22: addSubmission returns false and changes nothing when the assignment
\* is DRAFT or the student already has a submission, graded or not, so that
\* the first submission's content and grade stay; on success the student's
\* new submission has status submitted and no grade, and no other submission
\* and no grade record changes.
C22_OneSubmissionPerStudent ==
    call.op = "add_submission" =>
        IF PreA.status = "draft" \/ call.student \in DOMAIN PreA.submissions
        THEN /\ call.ret = "False"
             /\ assignments = call.pre
        ELSE /\ call.ret = "True"
             /\ DOMAIN PostA.submissions = DOMAIN PreA.submissions \cup {call.student}
             /\ PostA.submissions[call.student].status = "submitted"
             /\ PostA.submissions[call.student].grade = NoGrade
             /\ PostA.submissions[call.student].content = call.content
             /\ \A x \in DOMAIN PreA.submissions : PostA.submissions[x] = PreA.submissions[x]
             /\ PostA.grades = PreA.grades

\* C22 witness: a student whose submission is graded submitted another
\* content, was refused, and the first content and the grade are still there.
C22_Witness ==
    /\ call.op = "add_submission" /\ call.ret = "False"
    /\ call.student \in DOMAIN PostA.submissions
    /\ PostA.submissions[call.student].status = "graded"
    /\ PostA.submissions[call.student].content # call.content
    /\ PostA.submissions[call.student].grade # NoGrade

\* The grade limited to the range from 0 to max_points.
Limited(grade, max_points) ==
    CHOOSE g \in 0..max_points :
        \/ g = grade
        \/ grade < 0 /\ g = 0
        \/ grade > max_points /\ g = max_points

\* C23: gradeSubmission returns false and changes nothing when the student
\* has no submission; otherwise the grade stored, in the submission and in
\* the grade record, is the given grade limited to [0, max_points].
C23_GradeIsClamped ==
    call.op = "grade_submission" =>
        IF call.student \notin DOMAIN PreA.submissions
        THEN /\ call.ret = "False"
             /\ assignments = call.pre
        ELSE /\ call.ret = "True"
             /\ PostA.submissions[call.student].grade = Limited(call.grade, PreA.max_points)
             /\ PostA.grades[call.student].grade = Limited(call.grade, PreA.max_points)

\* C23 witness: a grade above max_points was given and max_points is stored.
C23_Witness ==
    /\ call.op = "grade_submission" /\ call.ret = "True"
    /\ call.grade > PostA.max_points
    /\ PostA.submissions[call.student].grade = PostA.max_points

\* C23 witness of the other case: grading a student without a submission
\* was refused while another student has one.
C23_WitnessNoSubmission ==
    /\ call.op = "grade_submission" /\ call.ret = "False"
    /\ DOMAIN PostA.submissions # {} /\ call.student \notin DOMAIN PostA.submissions

PreGrade == call.pre[call.k]

PostGrade == grades[call.k]

\* C25: record fails with a validation error and stores nothing whenever
\* score < 0, score > max_score or max_score <= 0 (max_score = 0 with
\* score = 0 included); in every other case exactly one new grade record,
\* with the score and the maximum given, is stored.
C25_RecordValidates ==
    call.op = "record_grade" =>
        IF call.score < 0 \/ call.score > call.max_score \/ call.max_score <= 0
        THEN /\ call.ret = ValueError
             /\ grades = call.pre
        ELSE /\ Len(grades) = Len(call.pre) + 1
             /\ SubSeq(grades, 1, Len(call.pre)) = call.pre
             /\ grades[Len(grades)].score = call.score
             /\ grades[Len(grades)].max_score = call.max_score

\* C25, the failing case: record was called with a GradeType member and
\* 0 <= score <= max_score, max_score > 0, and no grade was stored.
C25_Witness ==
    /\ call.op = "record_grade" /\ call.ret = TypeError
    /\ 0 <= call.score /\ call.score <= call.max_score /\ call.max_score > 0
    /\ grades = call.pre

\* C25, the other failing case: max_score = 0 with score = 0 passed
\* the validation of line 51.
C25_WitnessZero ==
    /\ call.op = "record_grade" /\ call.ret # ValueError
    /\ call.score = 0 /\ call.max_score = 0

\* 0 <= score <= max_score and max_score > 0
WithinLimits(g) == 0 <= g.score /\ g.score <= g.max_score /\ g.max_score > 0

\* C26: an update of a stored grade that has 0 <= score <= max_score and
\* max_score > 0 leaves a grade that has them too, the score or the maximum
\* that is not given being the retained one; so that after any sequence of
\* record and update calls every stored grade is within its limits.
C26_UpdateKeepsLimits ==
    (call.op = "update_grade" /\ call.k # 0 /\ WithinLimits(PreGrade))
        => WithinLimits(PostGrade)

\* C26, the failing case: an update that gave only max_score was accepted
\* and the retained score is above the new maximum.
C26_Witness ==
    /\ call.op = "update_grade" /\ call.ret = "Grade"
    /\ call.score = NoScore /\ call.max_score # NoScore
    /\ WithinLimits(PreGrade)
    /\ PostGrade.score = PreGrade.score /\ PostGrade.score > PostGrade.max_score

\* C27: an update that is rejected is rejected before any change: score,
\* max_score, comments and updated_at of every grade are as before the call.
C27_RejectedUpdateChangesNothing ==
    (call.op = "update_grade" /\ call.ret = ValueError) => grades = call.pre

\* C27, the failing case: a rejected update has replaced the score.
C27_Witness ==
    /\ call.op = "update_grade" /\ call.ret = ValueError /\ call.k # 0
    /\ PostGrade.score # PreGrade.score /\ PostGrade.score = call.score

\* C28: an accepted update that gives comments appends them to the stored
\* text, after a separator, and never replaces it: the earlier pieces stay,
\* in place, and their number does not decrease; without comments the text is
\* unchanged.
C28_CommentsAreAppended ==
    (call.op = "update_grade" /\ call.ret = "Grade") =>
        IF call.comments = None
        THEN PostGrade.comments = PreGrade.comments
        ELSE /\ Len(PostGrade.comments) >= Len(PreGrade.comments)
             /\ SubSeq(PostGrade.comments, 1, Len(PreGrade.comments)) = PreGrade.comments
             /\ PostGrade.comments[Len(PostGrade.comments)] = call.comments

\* C28, the failing case: the grade had a comment, the update gave another,
\* and the stored text is the new comment alone.
C28_Witness ==
    /\ call.op = "update_grade" /\ call.ret = "Grade" /\ call.comments # None
    /\ PreGrade.comments # <<>>
    /\ PostGrade.comments = <<call.comments>>
    /\ PreGrade.comments[1] # call.comments

\* No stored grade has the id the call gave.
UnknownGrade == \A k \in 1..Len(call.pre) : call.pre[k].id # call.id

\* C29: update(id, score = X) with 0 <= X <= max_score and nothing else
\* given sets the score to X and leaves max_score and comments, so that
\* repeating it changes nothing but updated_at; update with an id that is
\* not stored returns None and changes nothing.
C29_ScoreUpdateIsIdempotent ==
    call.op = "update_grade" =>
        /\ UnknownGrade => (call.ret = None /\ grades = call.pre)
        /\ (/\ ~UnknownGrade
            /\ call.score # NoScore /\ call.max_score = NoScore /\ call.comments = None
            /\ 0 <= call.score /\ call.score <= PreGrade.max_score)
           => /\ call.ret = "Grade"
              /\ PostGrade.score = call.score
              /\ grades = [call.pre EXCEPT ![call.k].score = call.score,
                                           ![call.k].updated_at = "now"]
              /\ PreGrade.score = call.score
                    => grades = [call.pre EXCEPT ![call.k].updated_at = "now"]

\* C29 witness: the update was repeated: the stored score was already the
\* score given, a score no grade starts with, and the grade is as it was.
C29_Witness ==
    /\ call.op = "update_grade" /\ call.ret = "Grade" /\ call.k # 0
    /\ call.score = 6000 /\ call.max_score = NoScore /\ call.comments = None
    /\ PreGrade.score = 6000
    /\ PostGrade = [PreGrade EXCEPT !.updated_at = "now"]

\* C29 witness of the other case: an update of an id that is not stored.
C29_WitnessUnknown ==
    /\ call.op = "update_grade" /\ call.id = UnknownGradeId /\ call.ret = None
    /\ call.score # NoScore

\* C30: classAverage over an empty list returns average 0, highest 0,
\* lowest 0 and count 0; over a list that is not empty, count is the number
\* of records and lowest <= average <= highest.
C30_AverageBetweenLowestAndHighest ==
    call.op = "calculate_class_average" =>
        IF call.pre = <<>>
        THEN call.out = [average |-> 0, highest |-> 0, lowest |-> 0, count |-> 0]
        ELSE /\ call.out.count = Len(call.pre)
             /\ call.out.lowest <= call.out.average
             /\ call.out.average <= call.out.highest

\* C30, the failing case: three grades of 199.57 out of 200 and an average
\* of 99.79 above the highest of 99.78.
C30_Witness ==
    /\ call.op = "calculate_class_average" /\ Len(call.pre) = 3
    /\ \A k \in 1..3 : call.pre[k].score = 19957 /\ call.pre[k].max_score = 20000
    /\ call.out.average = 9979 /\ call.out.highest = 9978 /\ call.out.lowest = 9978

\* C30, the empty list: the zeroed result.
C30_WitnessEmpty ==
    /\ call.op = "calculate_class_average" /\ call.pre = <<>>
    /\ call.out.count = 0 /\ call.out.average = 0

\* C36: get_overdue returns exactly the overdue assignments: an assignment
\* is in its result exactly when a read of its status at that time returns
\* OVERDUE.
C36_GetOverdueIsOverdueStatus ==
    call.op = "get_overdue" =>
        \A k \in 1..Len(assignments) :
            (\E i \in 1..Len(call.out) : call.out[i] = k)
                <=> UpdateStatus(assignments[k], now) = "overdue"

\* C36, a failing case: the assignment has an ungraded submission after the
\* due date, so that its status reads OVERDUE, and get_overdue returned
\* nothing.
C36_Witness ==
    /\ call.op = "get_overdue" /\ call.out = <<>>
    /\ now > assignments[1].due_date
    /\ \E x \in DOMAIN assignments[1].submissions :
          assignments[1].submissions[x].status = "submitted"

\* C36, the other failing case: get_overdue returned an assignment without
\* a submission, whose status reads IN_PROGRESS.
C36_WitnessNoSubmission ==
    /\ call.op = "get_overdue" /\ call.out = <<1>>
    /\ assignments[1].submissions = EmptyDict

\* The submissions of the k-th assignment that are still in status submitted.
StillSubmitted(k) ==
    {x \in DOMAIN assignments[k].submissions : assignments[k].submissions[x].status = "submitted"}

\* C37: get_teacher_workload reports in grading_needed every assignment of
\* the teacher that has a submission still in status submitted, with
\* ungraded_count the number of such submissions, and no other assignment.
C37_WorkloadListsUngraded ==
    call.op = "get_teacher_workload" =>
        \A k \in 1..Len(assignments) :
            (assignments[k].teacher_id = call.teacher /\ StillSubmitted(k) # {})
                <=> \E i \in 1..Len(call.out.grading_needed) :
                       /\ call.out.grading_needed[i].assignment_id = k
                       /\ call.out.grading_needed[i].ungraded_count
                              = Cardinality(StillSubmitted(k))

\* C37, the failing case: the teacher's assignment has two submissions in
\* status submitted and grading_needed is empty.
C37_Witness ==
    /\ call.op = "get_teacher_workload" /\ call.teacher = assignments[1].teacher_id
    /\ Cardinality(StillSubmitted(1)) = 2
    /\ call.out.grading_needed = <<>>
    /\ call.out.total_assignments = 1

\* C38: in every state, a stored status of DRAFT, PUBLISHED or IN_PROGRESS
\* goes with an empty submissions map, and a submissions map that is not
\* empty goes with a stored status of SUBMITTED, GRADED or OVERDUE.
C38_StoredStatusMatchesSubmissions ==
    \A k \in 1..Len(assignments) :
        /\ assignments[k].status \in {"draft", "published", "in_progress"}
              => assignments[k].submissions = EmptyDict
        /\ assignments[k].submissions # EmptyDict
              => assignments[k].status \in {"submitted", "graded", "overdue"}

\* C38 witness: the first submission was added to an assignment whose stored
\* status was IN_PROGRESS, and the stored status has followed.
C38_Witness ==
    /\ call.op = "add_submission" /\ call.ret = "True"
    /\ PreA.status = "in_progress" /\ PreA.submissions = EmptyDict
    /\ PostA.status = "submitted"

\* A status read has returned OVERDUE.
ReadOverdue == call.op = "status" /\ call.ret = "overdue"

\* A status read returns OVERDUE while a submission is not graded and GRADED
\* when every submission is graded.
ReadOverdueOrGraded ==
    call.op = "status" =>
        IF \E x \in DOMAIN PostA.submissions : PostA.submissions[x].status # "graded"
        THEN call.ret = "overdue"
        ELSE call.ret = "graded"

\* C39: once a status read has returned OVERDUE, every later status read
\* returns OVERDUE as long as a submission is not graded and GRADED as soon as
\* every submission is graded: OVERDUE is never followed by SUBMITTED,
\* IN_PROGRESS, PUBLISHED or DRAFT.
C39_OverdueUntilGraded == [](ReadOverdue => []ReadOverdueOrGraded)

\* C39 witness: the stored status was OVERDUE already, a submission is still
\* not graded, and a later read has returned OVERDUE again.
C39_Witness ==
    /\ ReadOverdue /\ PreA.status = "overdue"
    /\ \E x \in DOMAIN PostA.submissions : PostA.submissions[x].status = "graded"
    /\ \E x \in DOMAIN PostA.submissions : PostA.submissions[x].status = "submitted"

\* C39, the other case: after the due date every submission is graded and
\* the read returns GRADED.
C39_WitnessGraded ==
    /\ call.op = "status" /\ call.ret = "graded" /\ now > PostA.due_date
    /\ Cardinality(DOMAIN PostA.submissions) = 2

\* The update the last call asked for, applied to the grade as it was.
Asked(g) ==
    [g EXCEPT !.score = IF call.score # NoScore THEN call.score ELSE @,
              !.max_score = IF call.max_score # NoScore THEN call.max_score ELSE @,
              !.comments = IF call.comments # None THEN Str(call.comments) ELSE @,
              !.updated_at = "now"]

\* C34: a failure of the notification sink never undoes the record mutation:
\* when create_notification has failed after the grade was updated, the
\* stored grade is still present with its new values, and no notification
\* was stored.
C34_SinkFailureKeepsRecord ==
    (call.op = "update_grade" /\ call.ret = SinkFailure) =>
        /\ grades = [call.pre EXCEPT ![call.k] = Asked(@)]
        /\ GradeRepoGet(call.id) = call.k

\* C34 witness: the sink failed on an update that changed score and comment
\* of the stored grade.
C34_Witness ==
    /\ call.op = "update_grade" /\ call.ret = SinkFailure
    /\ call.score = 6000 /\ call.pre[call.k].score # 6000
    /\ call.comments = "late work"
    /\ grades[call.k].score = 6000 /\ grades[call.k].comments = <<"late work">>

\* C35: a status read that runs together with add_submission or
\* grade_submission returns the status derived from the state before or
\* after the write, as some serial order of the calls would, and a read made
\* when no writer is running returns the status derived from the
\* submissions as they are.
C35_ReadIsSerializable ==
    \A t \in Threads :
        (thr[t].pc = "returned" /\ thr[t].op = "status") => thr[t].ret \in thr[t].serial

\* C35, a failing case: past the due date the only submission was graded
\* when the read began and a second one was added meanwhile; the read
\* returned SUBMITTED, where the state before gives GRADED and the state
\* after OVERDUE.
C35_Witness ==
    \E t \in Threads :
        /\ thr[t].pc = "returned" /\ thr[t].op = "status"
        /\ thr[t].ret = "submitted"
        /\ thr[t].serial = {"graded", "overdue"}

\* C35, the other failing case: the read raised RuntimeError because a
\* submission was added while it went through the values.
C35_WitnessRaises ==
    \E t \in Threads :
        /\ thr[t].pc = "returned" /\ thr[t].op = "status"
        /\ thr[t].ret = RuntimeError

\* C35, the case that holds: a read made while no other call runs returns
\* the status derived from the final submissions.
C35_WitnessAlone ==
    \E t \in Threads :
        /\ thr[t].pc = "returned" /\ thr[t].op = "status"
        /\ \A u \in Threads \ {t} : thr[u].pc = "idle"
        /\ thr[t].ret = UpdateStatus(assignments[1], now)
        /\ thr[t].serial = {thr[t].ret}
        /\ Cardinality(DOMAIN assignments[1].submissions) = 2

\* The stored grades of the subject the statistics were asked for.
OfSubject == {k \in 1..Len(grades) : Lower(grades[k].subject) = Lower(call.subject)}

\* C31: the letter distribution of the subject statistics counts, for each
\* letter, the grades of the subject whose own letter_grade is that letter,
\* and the five counts add up to total_grades.
C31_DistributionMatchesLetterGrade ==
    (call.op = "get_subject_statistics" /\ OfSubject # {}) =>
        /\ \A x \in Letters :
              call.out.grade_distribution[x]
                  = Cardinality({k \in OfSubject : LetterGrade(grades[k]) = x})
        /\ call.out.grade_distribution["A"] + call.out.grade_distribution["B"]
              + call.out.grade_distribution["C"] + call.out.grade_distribution["D"]
              + call.out.grade_distribution["F"] = call.out.total_grades
        /\ call.out.total_grades = Cardinality(OfSubject)

\* C31 witness: statistics over a grade of exactly 80 percent and one of
\* 89.99 percent, both counted as B.
C31_Witness ==
    /\ call.op = "get_subject_statistics"
    /\ Cardinality(OfSubject) = 2
    /\ \E k \in OfSubject : grades[k].score = 8000 /\ grades[k].max_score = 10000
    /\ \E k \in OfSubject : grades[k].score = 8999
    /\ call.out.grade_distribution["B"] = 2

\* C31, the other case: a grade without a maximum has percentage 0 and is
\* counted as F.
C31_WitnessNoMaximum ==
    /\ call.op = "get_subject_statistics"
    /\ \E k \in OfSubject : grades[k].max_score = 0
    /\ call.out.grade_distribution["F"] >= 1

\* The stored grades the progress or the trends were asked for, and those
\* of them recorded last and first.
AskedFor ==
    {k \in 1..Len(grades) :
        /\ grades[k].student_id = call.student
        /\ call.subject # None => Lower(grades[k].subject) = Lower(call.subject)}

Newest == {k \in AskedFor : \A j \in AskedFor : ~Earlier(grades[k].created_at, grades[j].created_at)}

Oldest == {k \in AskedFor : \A j \in AskedFor : ~Earlier(grades[j].created_at, grades[k].created_at)}

\* x exceeds y by more than 5, in exact arithmetic on the two floats.
ExceedsBy5(x, y) == Less(AddBits(y, FromInt(5)), x)

\* C32: with two or more grades, of which one is the newest and one the
\* oldest, get_student_progress reports 'increasing' exactly when the
\* newest percentage exceeds the oldest by more than 5, 'decreasing'
\* exactly when the oldest exceeds the newest by more than 5, and 'stable'
\* otherwise; with one grade it reports 'stable'.
C32_TrendFollowsNewestAndOldest ==
    (call.op = "get_student_progress" /\ AskedFor # {}) =>
        /\ Cardinality(AskedFor) = 1 => call.out.trend = "stable"
        /\ (Cardinality(AskedFor) >= 2 /\ Cardinality(Newest) = 1 /\ Cardinality(Oldest) = 1) =>
              LET newest == Percentage(grades[CHOOSE k \in Newest : TRUE])
                  oldest == Percentage(grades[CHOOSE k \in Oldest : TRUE])
              IN  call.out.trend =
                      IF ExceedsBy5(newest, oldest) THEN "increasing"
                      ELSE IF ExceedsBy5(oldest, newest) THEN "decreasing"
                      ELSE "stable"

\* C32, the failing case: the older grade is 57 percent, the newer one 80
\* percent, and the trend is reported as 'decreasing'.
C32_Witness ==
    /\ call.op = "get_student_progress" /\ call.subject = "math"
    /\ Len(grades) = 2
    /\ grades[1].score = 5700 /\ grades[2].score = 8000
    /\ Earlier(grades[1].created_at, grades[2].created_at)
    /\ call.out.trend = "decreasing"

\* C32, a case that holds: a single grade gives 'stable'.
C32_WitnessOneGrade ==
    /\ call.op = "get_student_progress" /\ Cardinality(AskedFor) = 1
    /\ call.out.trend = "stable"

\* The grades asked for lie on different days, two or more, all within the
\* days the trends look back.
OnePerDay ==
    /\ Cardinality(AskedFor) >= 2
    /\ \A j, k \in AskedFor : j # k => grades[j].created_at.day # grades[k].created_at.day
    /\ \A k \in AskedFor :
          ~Earlier(grades[k].created_at, [day |-> now - call.days, hour |-> Noon])

\* The trend get_student_progress gives for the grades asked for.
ProgressTrend ==
    LET list == GetStudentGrades(call.student, call.subject)
    IN  Trend([i \in 1..Len(list) |-> Percentage(list[i])])

\* C33: for grades with one record a day, on two or more days within the
\* window, get_grade_trends reports a rising trend exactly when
\* get_student_progress reports 'increasing', a falling trend exactly when
\* it reports 'decreasing', and 'stable' exactly when it reports 'stable'.
C33_TrendsAgreeWithProgress ==
    (call.op = "get_grade_trends" /\ OnePerDay) =>
        /\ call.out.grade_trend = "improving" <=> ProgressTrend = "increasing"
        /\ call.out.grade_trend = "declining" <=> ProgressTrend = "decreasing"
        /\ call.out.grade_trend = "stable" <=> ProgressTrend = "stable"

\* C33, the failing case: the grades go from 57 to 80 percent on two days;
\* the trends report 'improving' where the progress reports 'decreasing'.
C33_Witness ==
    /\ call.op = "get_grade_trends" /\ OnePerDay
    /\ Len(grades) = 2 /\ grades[1].score = 5700 /\ grades[2].score = 8000
    /\ call.out.grade_trend = "improving"
    /\ ProgressTrend = "decreasing"

\* C33, a case that holds: equal grades on two days are 'stable' for both.
C33_WitnessStable ==
    /\ call.op = "get_grade_trends" /\ OnePerDay
    /\ call.out.grade_trend = "stable" /\ ProgressTrend = "stable"

====
